---- MODULE Spec2Model ----
(***************************************************************************)
(* Verification model of gs_manager: the configuration engines            *)
(* (cli.py GSCommand.config, config.py Config, command/config.py Config)   *)
(* and the multi-instance command dispatch of decorators.py.               *)
(*                                                                         *)
(* Python values are modelled as strings: None, True and False are the     *)
(* strings PyNone, PyTrue and PyFalse; a dict-valued configuration value   *)
(* is a reference (an object id) into `heap`, so that two mappings holding *)
(* the same dict object see each other's updates, as in Python.            *)
(***************************************************************************)
EXTENDS Integers, Sequences, FiniteSets, TLC

VARIABLES
    \* ---- config.py Config / cli.py GSCommand ----
    context_params,      \* click context.params of the group (global options)
    file_config,         \* Config._file_config
    global_cli_config,   \* Config._global_cli_config
    cli_config,          \* Config._cli_config
    instance_overrides,  \* the dict object behind config['instance_overrides']
    heap,                \* contents of the dict objects held by dict-valued fields
    final_config,        \* Config._final_config (NoConfig = None)
    _instances,          \* Config._instances: cache of instance configs
    gs_config,           \* GSCommand._config (NoConfig = None)
    last,                \* the last call made and the mapping it returned
    first_result,        \* per name, the mapping its first resolution returned
    calls,               \* number of calls made so far
    \* ---- command/config.py Config, servers/base.py BaseServer ----
    yaml_config,         \* the mapping yaml.safe_load gave load_config
    server_config,       \* the Config object: its kind and option values
    instances,           \* Config._instances: name -> InstanceConfig object
    config_instance_name, \* Config.instance_name (set by set_instance)
    multi_instance,      \* Config.multi_instance (set by set_instance)
    ctx_params,          \* context.params of the current command context
    config_ret,          \* what the last read of BaseServer.config returned
    \* ---- decorators.py: one invocation of a command ----
    supports_multi_instance, \* BaseServer.supports_multi_instance of the type
    policy,              \* the command's decorator: single_instance or multi_instance
    current_instance,    \* context.params["current_instance"]
    foreground,          \* context.params["foreground"]
    parallel,            \* context.params["parallel"]
    pc,                  \* where the invocation is
    instance_names,      \* the names multi_callback was given
    results,             \* the results collected by the run
    processes,           \* _run_parallel's processes, in start order, each with
                         \* what the command did in it and its exit status
    completed,           \* _run_parallel's count of ended processes
    finished,            \* the workers that ended, in the order they ended
    ran,                 \* the runs of the command in the invoking process, and
                         \* whether the command raised
    error,               \* the exception the invocation ended with
    return_value,        \* what the invocation returned, if it did
    \* ---- servers/base.py, servers/generic/screen.py: a server and its world ----
    server_class,        \* the class of the server object
    has_commands,        \* the server has a command command and say, save and
                         \* stop commands configured (_command_exists)
    world,               \* the server directory's files, the live processes
                         \* and their children, the invoking process's children
    steps,               \* the steps the last call on the server took
    server_ret,          \* the last call on the server and how it ended
    ops,                 \* number of calls made on the server so far
    \* ---- single calls of functions and commands ----
    call,                \* the function called, its arguments and what it finds
    result               \* what the call gave

legacyVars == <<context_params, file_config, global_cli_config, cli_config,
                instance_overrides, heap, final_config, _instances, gs_config,
                last, first_result, calls>>

configVars == <<yaml_config, server_config, instances, config_instance_name,
                multi_instance, ctx_params, config_ret>>

dispatchVars == <<supports_multi_instance, policy, current_instance, foreground,
                  parallel, pc, instance_names, results, processes, completed,
                  finished, ran, error, return_value>>

serverVars == <<server_class, has_commands, world, steps, server_ret, ops>>

callVars == <<call, result>>

vars == <<legacyVars, configVars, dispatchVars, serverVars, callVars>>

\* the variables the legacy engines (config.py, cli.py) never touch
nonLegacyVars == <<configVars, dispatchVars, serverVars, callVars>>

\* the variables command/config.py alone never touches
nonConfigVars == <<legacyVars, dispatchVars, serverVars, callVars>>

---------------------------------------------------------------------------
(* Bounds *)

\* calls made on the configuration objects in one behaviour
MaxCalls == 4

\* depth of the working directory below the root in the searches for the
\* configuration file
MaxDepth == 6

\* the longest wait, in seconds, that max_start and max_stop configure
MaxWait == 3

---------------------------------------------------------------------------
(* Python values and dict operations *)

PyNone == "None"
PyTrue == "True"
PyFalse == "False"

EmptyDict == [k \in {} |-> PyNone]
NoConfig == EmptyDict

\* dict.update(e) on d
dict_update(d, e) ==
    [k \in DOMAIN d \cup DOMAIN e |-> IF k \in DOMAIN e THEN e[k] ELSE d[k]]

\* del d[k] for every k of ks
dict_del(d, ks) == [k \in DOMAIN d \ ks |-> d[k]]

\* d[key] = v
dict_set(d, key, v) == dict_update(d, [k \in {key} |-> v])

\* x or y
py_or(x, y) == IF x \in {PyNone, PyFalse, ""} THEN y ELSE x

---------------------------------------------------------------------------
(* config.py: Config, and cli.py: GSCommand.config *)

DEFAULT_SERVER_TYPE == "base"

\* Config._path / GSCommand._find_config_path: the directory the run resolves
ConfigPath == "/srv"

\* dict objects: the defaults' and the file's ark_config, and the dict the
\* override of alpha carries
ObjIds == {"d_def", "d_file", "d_alpha"}

InitHeap ==
    [o \in ObjIds |->
        CASE o = "d_def"   -> [p \in {"p"} |-> "def_p"]
          [] o = "d_file"  -> [p \in {"p"} |-> "file_p"]
          [] o = "d_alpha" -> [q \in {"q"} |-> "alpha_q"]]

\* server_class.defaults()
default_config ==
    [k \in {"name", "user", "delay_start", "ark_config", "instance_overrides"} |->
        CASE k = "name" -> "gs"
          [] k = "user" -> "root"
          [] k = "delay_start" -> "3"
          [] k = "ark_config" -> "d_def"
          [] k = "instance_overrides" -> "io"]

\* the order in which the file lists its instances
InstanceOrder == <<"alpha", "beta">>

\* every partial mapping that takes some of the entries of m
SubDicts(m) == {[k \in s |-> m[k]] : s \in SUBSET DOMAIN m}

FileChoices ==
    SubDicts([k \in {"user", "delay_start", "debug", "ark_config"} |->
        CASE k = "user" -> "f_user"
          [] k = "delay_start" -> "f_delay"
          [] k = "debug" -> PyTrue
          [] k = "ark_config" -> "d_file"])

\* the group's parsed options: an option not given is None, a flag False
GlobalParamChoices ==
    {[k \in {"user", "debug", "type", "save"} |->
        CASE k = "user" -> u
          [] k = "debug" -> d
          [] k = "type" -> PyNone
          [] k = "save" -> PyFalse] :
     u \in {PyNone, "g_user"}, d \in {PyFalse, PyTrue}}

\* a command's parsed options
CommandParamChoices ==
    {[k \in {"delay_start"} |-> ds] : ds \in {PyNone, "c_delay"}}

AlphaOverrides ==
    SubDicts([k \in {"user", "delay_start", "ark_config"} |->
        CASE k = "user" -> "a_user"
          [] k = "delay_start" -> "a_delay"
          [] k = "ark_config" -> "d_alpha"])

\* the file's instance_overrides: none, or alpha (any override) and beta
\* (an empty override)
OverrideChoices ==
    {EmptyDict} \cup
    {[n \in {"alpha", "beta"} |-> IF n = "alpha" THEN a ELSE EmptyDict] :
        a \in AlphaOverrides}

\* Config._get_cli_config(params)
_get_cli_config(params) ==
    [k \in {x \in DOMAIN params : params[x] \notin {PyNone, PyFalse}} |-> params[k]]

\* GSCommand._get_cli_config()
GSCommand_get_cli_config(params) ==
    [k \in {x \in DOMAIN params : params[x] # PyNone} |-> params[k]]

\* list(self['instance_overrides'].keys())
instance_keys(io) == SelectSeq(InstanceOrder, LAMBDA n : n \in DOMAIN io)

\* the override _make_final_config reads for a name ({} when .get gives None)
override_of(name) ==
    IF name \in DOMAIN instance_overrides THEN instance_overrides[name] ELSE EmptyDict

\* the keys of an override whose value is a dict
dict_keys(ov) == {k \in DOMAIN ov : ov[k] \in ObjIds}

\* lines 104-106: defaults, then the file, then the global options
base_layers ==
    dict_update(dict_update(default_config, file_config), global_cli_config)

\* lines 124-135: the entries _make_final_config sets last
finish_config(config, instance_name) ==
    LET c1 == IF instance_name # PyNone
              THEN dict_del(dict_set(config, "current_instance", instance_name),
                            {"instance_overrides"})
              ELSE config
        c2 == dict_set(c1, "type",
                  py_or(IF "type" \in DOMAIN c1 THEN c1["type"] ELSE PyNone,
                        DEFAULT_SERVER_TYPE))
        c3 == dict_set(c2, "path", ConfigPath)
        c4 == IF "save" \notin DOMAIN c3 THEN dict_set(c3, "save", PyFalse) ELSE c3
    IN  IF "debug" \notin DOMAIN c4 THEN dict_set(c4, "debug", PyFalse) ELSE c4

\* _make_final_config without lines 117-122 (the command's options applied)
_make_final_config_no_cli(instance_name) ==
    LET ov == IF instance_name = PyNone THEN EmptyDict ELSE override_of(instance_name)
        withOverride == dict_update(base_layers, dict_del(ov, dict_keys(ov)))
    IN  finish_config(withOverride, instance_name)

\* Config._make_final_config(instance_name): the mapping it returns
_make_final_config(instance_name) ==
    LET ov == IF instance_name = PyNone THEN EmptyDict ELSE override_of(instance_name)
        withOverride == dict_update(base_layers, dict_del(ov, dict_keys(ov)))
    IN  finish_config(dict_update(withOverride, cli_config), instance_name)

\* an override's dict put in the place of the layers' dict
heap_after_make_replaced(instance_name) ==
    LET ov == IF instance_name = PyNone THEN EmptyDict ELSE override_of(instance_name)
    IN  [o \in ObjIds |->
            IF \E k \in dict_keys(ov) : base_layers[k] = o
            THEN LET k == CHOOSE x \in dict_keys(ov) : base_layers[x] = o
                 IN  heap[ov[k]]
            ELSE heap[o]]

\* lines 111-113: config[key].update(value) on the dict objects of the layers
heap_after_make(instance_name) ==
    LET ov == IF instance_name = PyNone THEN EmptyDict ELSE override_of(instance_name)
    IN  [o \in ObjIds |->
            IF \E k \in dict_keys(ov) : base_layers[k] = o
            THEN LET k == CHOOSE x \in dict_keys(ov) : base_layers[x] = o
                 IN  dict_update(heap[o], heap[ov[k]])
            ELSE heap[o]]

\* line 114: del instance_config[key] on the stored override
overrides_after_make(instance_name) ==
    IF instance_name # PyNone /\ instance_name \in DOMAIN instance_overrides
    THEN [instance_overrides EXCEPT
            ![instance_name] = dict_del(@, dict_keys(@))]
    ELSE instance_overrides

\* Config._set_final_config(): the values it leaves in _final_config, _instances
final_after_set ==
    IF final_config = NoConfig THEN _make_final_config(PyNone) ELSE final_config

instances_after_set ==
    IF final_config = NoConfig THEN EmptyDict ELSE _instances

\* what a reader of a mapping sees: dict-valued entries by their contents
View(config, h) ==
    [k \in DOMAIN config |-> IF config[k] \in ObjIds THEN h[config[k]] ELSE config[k]]

NoCall == [op |-> "none", name |-> PyNone, ret |-> EmptyDict]

NoResults == [n \in {PyNone, "alpha", "beta"} |-> EmptyDict]

\* Config.__init__: the file and the global options are read, the defaults
\* fetched, and _validate_config (self.items()) resolves the base config
LegacyInit ==
    /\ context_params \in GlobalParamChoices
    /\ file_config \in FileChoices
    /\ global_cli_config = _get_cli_config(context_params)
    /\ cli_config = EmptyDict
    /\ instance_overrides \in OverrideChoices
    /\ heap = InitHeap
    /\ final_config = finish_config(base_layers, PyNone)
    /\ _instances = EmptyDict
    /\ gs_config = NoConfig
    /\ last = NoCall
    /\ first_result = NoResults
    /\ calls = 0

\* GSCommand.config (cli.py): computed once, then cached, when the group
\* starts (before any command is run). The run is made without --save, so
\* _save_config_file returns at its guard.
GSCommand_config ==
    /\ UNCHANGED nonLegacyVars
    /\ calls = 0
    /\ calls < MaxCalls
    /\ calls' = calls + 1
    /\ gs_config = NoConfig
    /\ LET params == dict_set(context_params, "path", ConfigPath)
           cli == GSCommand_get_cli_config(params)
       IN  /\ context_params' = params
           /\ gs_config' = dict_update(dict_update(default_config, file_config), cli)
    /\ last' = [op |-> "GSCommand.config", name |-> PyNone, ret |-> EmptyDict]
    /\ UNCHANGED <<file_config, global_cli_config, cli_config, instance_overrides,
                   heap, final_config, _instances, first_result>>

\* Config.__getitem__ and the other readers: _set_final_config()
_set_final_config ==
    /\ UNCHANGED nonLegacyVars
    /\ calls < MaxCalls
    /\ calls' = calls + 1
    /\ final_config = NoConfig
    /\ final_config' = final_after_set
    /\ _instances' = instances_after_set
    /\ last' = [op |-> "_set_final_config", name |-> PyNone, ret |-> EmptyDict]
    /\ UNCHANGED <<context_params, file_config, global_cli_config, cli_config,
                   instance_overrides, heap, gs_config, first_result>>

\* Config.set_cli_config(config)
set_cli_config ==
    /\ UNCHANGED nonLegacyVars
    /\ calls < MaxCalls
    /\ calls' = calls + 1
    /\ \E params \in CommandParamChoices :
        /\ final_config' = NoConfig
        /\ cli_config' = _get_cli_config(params)
        /\ first_result' = IF cli_config' = cli_config THEN first_result ELSE NoResults
        /\ last' = [op |-> "set_cli_config", name |-> PyNone, ret |-> EmptyDict]
        /\ UNCHANGED <<context_params, file_config, global_cli_config,
                       instance_overrides, heap, _instances, gs_config>>

\* Config.add_cli_config(config)
add_cli_config ==
    /\ UNCHANGED nonLegacyVars
    /\ calls < MaxCalls
    /\ calls' = calls + 1
    /\ \E params \in CommandParamChoices :
        /\ final_config' = NoConfig
        /\ cli_config' = dict_update(cli_config, _get_cli_config(params))
        /\ first_result' = IF cli_config' = cli_config THEN first_result ELSE NoResults
        /\ last' = [op |-> "add_cli_config", name |-> PyNone, ret |-> EmptyDict]
        /\ UNCHANGED <<context_params, file_config, global_cli_config,
                       instance_overrides, heap, _instances, gs_config>>

\* Config.get_instance_config(name)
get_instance_config ==
    /\ UNCHANGED nonLegacyVars
    /\ calls < MaxCalls
    /\ calls' = calls + 1
    /\ \E name \in {PyNone, "alpha", "beta"} :
        /\ IF name \in DOMAIN _instances
           THEN \* cached: returned as it is
                /\ UNCHANGED <<final_config, _instances, heap, instance_overrides>>
                /\ last' = [op |-> "get_instance_config", name |-> name,
                            ret |-> View(_instances[name], heap)]
           ELSE LET keys == instance_keys(instance_overrides)
                    n == IF name = PyNone /\ Len(keys) > 0 THEN keys[1] ELSE name
                    made == _make_final_config(n)
                    config == IF n # PyNone
                              THEN dict_set(made, "name", made["name"] \o "_" \o n)
                              ELSE made
                IN  /\ final_config' = final_after_set
                    /\ _instances' = dict_set(instances_after_set, n, config)
                    /\ heap' = heap_after_make(n)
                    /\ instance_overrides' = overrides_after_make(n)
                    /\ last' = [op |-> "get_instance_config", name |-> n,
                                ret |-> View(config, heap')]
        /\ first_result' =
              IF first_result[last'.name] = EmptyDict
              THEN [first_result EXCEPT ![last'.name] = last'.ret]
              ELSE first_result
        /\ UNCHANGED <<context_params, file_config, global_cli_config, cli_config,
                       gs_config>>

\* the state of the legacy engines in a run that does not use them
LegacyIdle ==
    /\ context_params = EmptyDict
    /\ file_config = EmptyDict
    /\ global_cli_config = EmptyDict
    /\ cli_config = EmptyDict
    /\ instance_overrides = EmptyDict
    /\ heap = InitHeap
    /\ final_config = NoConfig
    /\ _instances = EmptyDict
    /\ gs_config = NoConfig
    /\ last = NoCall
    /\ first_result = NoResults
    /\ calls = 0

LegacyNext ==
    \/ GSCommand_config
    \/ _set_final_config
    \/ set_cli_config
    \/ add_cli_config
    \/ get_instance_config

---------------------------------------------------------------------------
(* command/config.py: BaseConfig, Config and the InstanceConfig objects   *)
(* Config makes for the entries of instance_overrides. An object is its   *)
(* class and its option values.                                           *)

\* BaseServerConfig's options the model follows (servers/base.py)
ConfigOptions == {"name", "max_start", "spawn_process"}

\* the class attributes of BaseServerConfig: the values before any load
class_defaults ==
    [k \in ConfigOptions |->
        CASE k = "name" -> "game_server"
          [] k = "max_start" -> "60"
          [] k = "spawn_process" -> PyFalse]

\* the keys of every mapping the model iterates, in their insertion order
ItemOrder == <<"name", "max_start", "spawn_process", "foreground">>

RECURSIVE items_from(_, _)
items_from(d, i) ==
    IF i > Len(ItemOrder) THEN <<>>
    ELSE IF ItemOrder[i] \in DOMAIN d
         THEN <<ItemOrder[i]>> \o items_from(d, i + 1)
         ELSE items_from(d, i + 1)

\* the instance names, in the order instance_overrides lists them
NewInstanceOrder == <<"alpha", "beta", "gamma">>

RECURSIVE names_from(_, _)
names_from(insts, i) ==
    IF i > Len(NewInstanceOrder) THEN <<>>
    ELSE IF NewInstanceOrder[i] \in DOMAIN insts
         THEN <<NewInstanceOrder[i]>> \o names_from(insts, i + 1)
         ELSE names_from(insts, i + 1)

\* Config.all_instance_names
all_instance_names == names_from(instances, 1)

\* get_type_for_param: get_type_hints of the object's class. The class the
\* factory makes carries the options as plain attributes set to None, with
\* no annotation, so an InstanceConfig has no type for any option.
get_type_for_param(kind, param) ==
    IF kind = "Config"
    THEN CASE param = "spawn_process" -> "bool"
           [] param = "max_start" -> "int"
           [] OTHER -> "str"
    ELSE PyNone

\* Python's truth value of the values the model uses
truthy(value) == value \notin {PyNone, PyFalse, ""}

\* BaseConfig._update_config_from_dict, from the key at position i on
RECURSIVE update_items(_, _, _, _, _)
update_items(obj, config_dict, keys, ignore_unknown, ignore_bool) ==
    IF keys = <<>> THEN obj
    ELSE LET key == Head(keys)
             value == config_dict[key]
             rest == Tail(keys)
         IN  IF ~(ignore_unknown \/ key \in ConfigOptions)
             THEN [obj EXCEPT !.raised = TRUE]
             ELSE IF key \notin ConfigOptions \/ value = PyNone
             THEN update_items(obj, config_dict, rest, ignore_unknown, ignore_bool)
             ELSE IF ~ignore_bool
                     \/ get_type_for_param(obj.kind, key) # "bool"
                     \/ truthy(value)
             THEN update_items([obj EXCEPT !.attrs[key] = value], config_dict,
                               rest, ignore_unknown, ignore_bool)
             ELSE update_items(obj, config_dict, rest, ignore_unknown, ignore_bool)

\* a merge that skips unknown keys whatever ignore_unknown says (compared
\* against it)
BaseConfig_update_config_lenient(obj, config_dict, ignore_unknown, ignore_bool) ==
    update_items(obj, config_dict, items_from(config_dict, 1), TRUE,
                 ignore_bool)

BaseConfig_update_config_from_dict(obj, config_dict, ignore_unknown, ignore_bool) ==
    update_items(obj, config_dict, items_from(config_dict, 1), ignore_unknown,
                 ignore_bool)

\* Config._update_config_from_dict: the object itself, then every instance
\* (an exception in the first call leaves the instances as they were)
Config_update_config_from_dict(cfg, insts, config_dict, ignore_unknown, ignore_bool) ==
    LET base == BaseConfig_update_config_from_dict(cfg, config_dict,
                                                   ignore_unknown, ignore_bool)
    IN  [config |-> base,
         instances |->
            IF base.raised THEN insts
            ELSE [n \in DOMAIN insts |->
                    BaseConfig_update_config_from_dict(insts[n], config_dict,
                                                       ignore_unknown, ignore_bool)]]

\* BaseConfig._update_config_from_context on a Config
update_config(cfg, insts, context_params_) ==
    Config_update_config_from_dict(cfg, insts, context_params_, TRUE, TRUE)

\* Config._make_instance_config
_make_instance_config(cfg, instance_dict) ==
    BaseConfig_update_config_from_dict(
        [kind |-> "InstanceConfig", attrs |-> cfg.attrs, raised |-> FALSE],
        instance_dict, TRUE, FALSE)

\* Config.load_config on a new object, for the mapping the file holds
load_config(yaml, ignore_unknown) ==
    LET loaded == Config_update_config_from_dict(
                      [kind |-> "Config", attrs |-> class_defaults, raised |-> FALSE],
                      EmptyDict, yaml.base, ignore_unknown, FALSE)
    IN  [config |-> loaded.config,
         instances |-> [n \in DOMAIN yaml.instance_overrides |->
                           _make_instance_config(loaded.config,
                                                 yaml.instance_overrides[n])]]

\* Config.get_instance(name): the object, and the state its update leaves
get_instance(cfg, insts, name, context_params_) ==
    IF name = "default"
    THEN LET u == update_config(cfg, insts, context_params_)
         IN  [config |-> u.config, instances |-> u.instances, ret |-> u.config]
    ELSE LET i == BaseConfig_update_config_from_dict(insts[name], context_params_,
                                                     TRUE, TRUE)
         IN  [config |-> cfg, instances |-> [insts EXCEPT ![name] = i], ret |-> i]

\* ---- the files and command lines the model ranges over ----

YamlBaseChoices ==
    SubDicts([k \in {"name", "max_start", "spawn_process"} |->
                CASE k = "name" -> "f_name"
                  [] k = "max_start" -> "f_max"
                  [] k = "spawn_process" -> PyTrue])

YamlAlphaChoices ==
    UNION {SubDicts([k \in {"max_start", "spawn_process"} |->
                        IF k = "max_start" THEN "a_max" ELSE b])
           : b \in {PyTrue, PyFalse}}

YamlOverrideChoices ==
    {EmptyDict} \cup
    {[n \in {"alpha", "beta"} |-> IF n = "alpha" THEN a ELSE EmptyDict]
        : a \in YamlAlphaChoices}

\* the parameters of the group context (the options of main)
GroupParamChoices == {[k \in {"name"} |-> v] : v \in {PyNone, "g_name"}}

\* the parameters of a command context: start's options
StartParamChoices ==
    {[k \in {"max_start", "spawn_process", "foreground"} |->
        CASE k = "max_start" -> m
          [] k = "spawn_process" -> s
          [] k = "foreground" -> PyFalse]
     : m \in {PyNone, "c_max"}, s \in {PyFalse, PyTrue}}

NoObject == [kind |-> "none", attrs |-> EmptyDict, raised |-> FALSE]

\* ConfigCommandClass.make_context: make_server_config loads the file into
\* the server's server_config class and applies the group context
ConfigInit ==
    /\ yaml_config \in [base : YamlBaseChoices,
                        instance_overrides : YamlOverrideChoices]
    /\ \E group_params \in GroupParamChoices :
        LET loaded == load_config(yaml_config, FALSE)
            u == update_config(loaded.config, loaded.instances, group_params)
        IN  /\ server_config = u.config
            /\ instances = u.instances
            /\ ctx_params = group_params
    /\ config_instance_name = PyNone
    /\ multi_instance = FALSE
    /\ config_ret = NoObject

\* ServerCommandClass.make_context: the command's context becomes current and
\* is applied (context.parent.obj.config reads the property, which applied
\* the group context again first)
ServerCommandClass_make_context ==
    /\ UNCHANGED nonConfigVars
    /\ \E command_params \in StartParamChoices :
        LET u == update_config(server_config, instances, ctx_params)
            v == update_config(u.config, u.instances, command_params)
        IN  /\ ctx_params' = command_params
            /\ server_config' = v.config
            /\ instances' = v.instances
    /\ UNCHANGED <<yaml_config, config_instance_name, multi_instance, config_ret>>

\* BaseServer.set_instance(instance_name, multi_instance)
set_instance ==
    /\ UNCHANGED nonConfigVars
    /\ \E name \in {PyNone} \cup DOMAIN instances, multi \in BOOLEAN :
        /\ config_instance_name' = name
        /\ multi_instance' = multi
    /\ UNCHANGED <<yaml_config, server_config, instances, ctx_params, config_ret>>

\* BaseServer.config: EmptyServer.config applies the current context, then
\* current_instance returns the Config or get_instance(instance_name)
BaseServer_config ==
    /\ UNCHANGED nonConfigVars
    /\ LET u == update_config(server_config, instances, ctx_params)
           g == IF config_instance_name = PyNone
                THEN [config |-> u.config, instances |-> u.instances,
                      ret |-> u.config]
                ELSE get_instance(u.config, u.instances, config_instance_name, ctx_params)
       IN  /\ server_config' = g.config
           /\ instances' = g.instances
           /\ config_ret' = g.ret
    /\ UNCHANGED <<yaml_config, config_instance_name, multi_instance, ctx_params>>

\* the state of command/config.py in a run that does not use it
ConfigIdle ==
    /\ yaml_config = [base |-> EmptyDict, instance_overrides |-> EmptyDict]
    /\ server_config = NoObject
    /\ instances = EmptyDict
    /\ config_instance_name = PyNone
    /\ multi_instance = FALSE
    /\ ctx_params = EmptyDict
    /\ config_ret = NoObject

ConfigNext ==
    \/ ServerCommandClass_make_context
    \/ set_instance
    \/ BaseServer_config

---------------------------------------------------------------------------
(* decorators.py: the instance wrapper of every command, the sequential   *)
(* and the parallel run of a multi_instance command. A string the code    *)
(* takes apart (the --instance value) is a sequence of characters.        *)

STATUS_SUCCESS == 0
STATUS_FAILED == 1
STATUS_PARTIAL_FAIL == 2

\* the --instance value when the option is not given
NoSelector == <<PyNone>>

At == <<"@">>
AtAll == <<"@", "a", "l", "l">>
AtEach == <<"@", "e", "a", "c", "h", ":">>
Comma == <<",">>
Alpha == <<"a", "l", "p", "h", "a">>
Beta == <<"b", "e", "t", "a">>
Gamma == <<"g", "a", "m", "m", "a">>

\* str.startswith
startswith(s, prefix) ==
    Len(s) >= Len(prefix) /\ SubSeq(s, 1, Len(prefix)) = prefix

\* the characters of s as a string value
RECURSIVE to_str(_)
to_str(s) == IF s = <<>> THEN "" ELSE s[1] \o to_str(Tail(s))

\* s.split(","): the pieces between the commas, the piece being read in cur
RECURSIVE split_from(_, _)
split_from(s, cur) ==
    IF s = <<>> THEN <<to_str(cur)>>
    ELSE IF Head(s) = "," THEN <<to_str(cur)>> \o split_from(Tail(s), <<>>)
    ELSE split_from(Tail(s), Append(cur, Head(s)))

split(s) == split_from(s, <<>>)

\* the elements of a list
list_values(l) == {l[i] : i \in 1..Len(l)}

\* list.count
count(l, v) == Cardinality({i \in 1..Len(l) : l[i] = v})

\* the outcome of _wrapper's and the runs' steps that raise
ERR_NONE == "none"
ERR_UNSUPPORTED == "BadParameter: does not support multiple instances"
ERR_UNKNOWN == "BadParameter: instance does not exist"
ERR_SINGLE == "ClickException: does not support @all"
ERR_FOREGROUND == "ClickException: cannot use @ options with the --foreground option"
ERR_BODY == "exception raised by the command"

\* _get_instance_names with the membership test of lines 60-64 left out
\* (compared against it)
_get_instance_names_unchecked(instance_str, all_names) ==
    [error |-> ERR_NONE,
     names |-> IF instance_str = AtAll THEN all_names
               ELSE IF startswith(instance_str, AtEach)
               THEN split(SubSeq(instance_str, 7, Len(instance_str)))
               ELSE <<>>]

_get_instance_names(instance_str, all_names) ==
    IF instance_str = AtAll
    THEN [error |-> ERR_NONE, names |-> all_names]
    ELSE IF startswith(instance_str, AtEach)
    THEN LET names == split(SubSeq(instance_str, 7, Len(instance_str)))
         IN  IF \E i \in 1..Len(names) : names[i] \notin list_values(all_names)
             THEN [error |-> ERR_UNKNOWN, names |-> <<>>]
             ELSE [error |-> ERR_NONE, names |-> names]
    ELSE [error |-> ERR_NONE, names |-> <<>>]

\* the check of lines 88-89 made for @ selectors alone (compared against it)
unsupported_at_only(instance_name, supports) ==
    instance_name # NoSelector /\ startswith(instance_name, At) /\ ~supports

\* _wrapper, lines 88-89: a selector was given and the server type does not
\* support multiple instances
unsupported(instance_name, supports) ==
    instance_name # NoSelector /\ ~supports

\* multi_callback's raise for --foreground left out (compared against it)
multi_callback_guard_no_foreground(policy_, foreground_) ==
    IF policy_ = "single_instance" THEN ERR_SINGLE ELSE ERR_NONE

\* multi_callback with single_instance's raise left out (compared against it)
multi_callback_guard_multi_only(policy_, foreground_) ==
    IF foreground_ THEN ERR_FOREGROUND ELSE ERR_NONE

\* what multi_callback raises before any instance is run: single_instance's
\* always raises, multi_instance's raises for --foreground
multi_callback_guard(policy_, foreground_) ==
    IF policy_ = "single_instance" THEN ERR_SINGLE
    ELSE IF foreground_ THEN ERR_FOREGROUND
    ELSE ERR_NONE

\* multi_callback's return code without the all-failed step of lines 261-262
\* (compared against it)
return_code_no_all_failed(results_) ==
    IF count(results_, STATUS_FAILED) > 0 \/ count(results_, STATUS_PARTIAL_FAIL) > 0
    THEN STATUS_PARTIAL_FAIL
    ELSE STATUS_SUCCESS

\* a return code taken from the first result alone (compared against it)
return_code_of_first(results_) ==
    IF results_ = <<>> THEN STATUS_FAILED ELSE results_[1]

\* multi_callback, lines 246-263: the return code for the collected results
multi_callback_return_code(results_) ==
    LET partial_failed == count(results_, STATUS_PARTIAL_FAIL)
        failed == count(results_, STATUS_FAILED)
        total == Len(results_)
        c1 == IF failed > 0 THEN STATUS_PARTIAL_FAIL ELSE STATUS_SUCCESS
        c2 == IF partial_failed > 0 THEN STATUS_PARTIAL_FAIL ELSE c1
    IN  IF failed = total THEN STATUS_FAILED ELSE c2

\* what a run of the command's body does: returns a code or raises
BodyOutcomes ==
    {[raises |-> FALSE, code |-> c]
        : c \in {STATUS_SUCCESS, STATUS_FAILED, STATUS_PARTIAL_FAIL}}
    \cup {[raises |-> TRUE, code |-> STATUS_FAILED]}

\* a call of the callback whose exception is caught and counted as a failure
\* (compared against it)
callback_caught(outcome) == [raises |-> FALSE, code |-> outcome.code]

\* a call of the callback whose result is dropped for STATUS_SUCCESS
\* (compared against it)
callback_result_dropped(outcome) ==
    [raises |-> outcome.raises, code |-> STATUS_SUCCESS]

\* result = callback(*args, **kwargs): an exception is not caught
callback(outcome) == outcome

\* a worker whose exception is swallowed and ends it with status 0
\* (compared against it)
worker_exitcode_swallowed(outcome) ==
    IF outcome.raises THEN 0 ELSE outcome.code

\* a worker that always ends with status 0 (compared against it)
worker_exitcode_success(outcome) == STATUS_SUCCESS

\* how a worker process ends: surpress exits with the callback's result, and
\* an exception ends the process with status 1
worker_exitcode(outcome) ==
    IF outcome.raises THEN 1 ELSE outcome.code

\* ---- the invocations the model ranges over ----

SelectorChoices ==
    {NoSelector, Alpha, Gamma, At, AtAll, AtEach,
     AtEach \o Alpha,
     AtEach \o Beta \o Comma \o Alpha,
     AtEach \o Alpha \o Comma \o Alpha,
     AtEach \o Alpha \o Comma \o Beta \o Comma \o Gamma}

DispatchYamlChoices ==
    {[base |-> EmptyDict, instance_overrides |-> [n \in ns |-> EmptyDict]]
        : ns \in {{}, {"alpha", "beta"}, {"alpha", "beta", "gamma"}}}

NoProcesses == <<>>

\* a command of a server is about to be invoked: the configuration is
\* loaded, the command line parsed
DispatchInit ==
    /\ yaml_config \in DispatchYamlChoices
    /\ server_config = load_config(yaml_config, FALSE).config
    /\ instances = load_config(yaml_config, FALSE).instances
    /\ config_instance_name = PyNone
    /\ multi_instance = FALSE
    /\ ctx_params = EmptyDict
    /\ config_ret = NoObject
    /\ supports_multi_instance \in BOOLEAN
    /\ policy \in {"single_instance", "multi_instance"}
    /\ current_instance \in SelectorChoices
    /\ foreground \in BOOLEAN
    /\ parallel \in BOOLEAN
    /\ pc = "ready"
    /\ instance_names = <<>>
    /\ results = <<>>
    /\ processes = NoProcesses
    /\ completed = 0
    /\ finished = <<>>
    /\ ran = <<>>
    /\ error = ERR_NONE
    /\ return_value = <<>>

\* what every step of a dispatch leaves alone
DispatchFrame ==
    UNCHANGED <<legacyVars, yaml_config, server_config, instances, ctx_params,
                config_ret, supports_multi_instance, policy, current_instance,
                foreground, parallel, serverVars, callVars>>

\* the step ends with an exception
Raise(err) ==
    /\ pc' = "raised"
    /\ error' = err
    /\ UNCHANGED return_value

\* the step ends the command with a return value
Return(value) ==
    /\ pc' = "returned"
    /\ return_value' = <<value>>
    /\ UNCHANGED error

\* _instance_wrapper._wrapper: the checks, then the command itself for no
\* instance or one, or multi_callback up to the start of its run. A
\* sequential run of an empty list and every raise end in this step.
_wrapper ==
    /\ pc = "ready"
    /\ DispatchFrame
    /\ LET expansion == _get_instance_names(current_instance, all_instance_names)
           guard == multi_callback_guard(policy, foreground)
       IN
       IF unsupported(current_instance, supports_multi_instance)
       THEN /\ Raise(ERR_UNSUPPORTED)
            /\ UNCHANGED <<config_instance_name, multi_instance, instance_names,
                           results, processes, completed, finished, ran>>
       ELSE IF current_instance # NoSelector /\ startswith(current_instance, At)
       THEN IF expansion.error # ERR_NONE
            THEN /\ Raise(expansion.error)
                 /\ UNCHANGED <<config_instance_name, multi_instance,
                                instance_names, results, processes, completed,
                                finished, ran>>
            ELSE IF guard # ERR_NONE
            THEN \* multi_callback was given the names, and raises
                 /\ instance_names' = expansion.names
                 /\ Raise(guard)
                 /\ UNCHANGED <<config_instance_name, multi_instance, results,
                                processes, completed, finished, ran>>
            ELSE IF parallel
            THEN \* _run_parallel, lines 143-177: every process is started
                 /\ instance_names' = expansion.names
                 /\ processes' = [i \in 1..Len(expansion.names) |->
                                    [instance_name |-> expansion.names[i],
                                     current |-> config_instance_name,
                                     at |-> "started",
                                     alive |-> TRUE, outcome |-> <<>>,
                                     exitcode |-> <<>>]]
                 /\ pc' = "poll"
                 /\ UNCHANGED <<config_instance_name, multi_instance, results,
                                completed, finished, ran, error, return_value>>
            ELSE IF expansion.names = <<>>
            THEN \* _run_sync with nothing to run, and the return code
                 /\ instance_names' = <<>>
                 /\ config_instance_name' = PyNone
                 /\ multi_instance' = FALSE
                 /\ Return(multi_callback_return_code(<<>>))
                 /\ UNCHANGED <<results, processes, completed, finished, ran>>
            ELSE /\ instance_names' = expansion.names
                 /\ pc' = "run_sync"
                 /\ UNCHANGED <<config_instance_name, multi_instance, results,
                                processes, completed, finished, ran, error,
                                return_value>>
       ELSE IF current_instance # NoSelector
               /\ to_str(current_instance) \notin list_values(all_instance_names)
       THEN /\ Raise(ERR_UNKNOWN)
            /\ UNCHANGED <<config_instance_name, multi_instance, instance_names,
                           results, processes, completed, finished, ran>>
       ELSE \* lines 102-105: the command for the base or the named instance
            \E outcome \in BodyOutcomes :
              LET name == IF current_instance = NoSelector THEN PyNone
                          ELSE to_str(current_instance)
                  r == callback(outcome)
              IN  /\ ran' = Append(ran, [instance_name |-> name,
                                         multi_instance |-> FALSE,
                                         raised |-> outcome.raises,
                                         code |-> outcome.code])
                  /\ multi_instance' = FALSE
                  /\ IF r.raises
                     THEN /\ config_instance_name' = name
                          /\ Raise(ERR_BODY)
                     ELSE /\ config_instance_name' = PyNone
                          /\ Return(r.code)
                  /\ UNCHANGED <<instance_names, results, processes, completed,
                                 finished>>

\* _run_sync, one pass of the loop of lines 120-128; the pass for the last
\* name goes on to line 130 and to multi_callback's return code
_run_sync ==
    /\ pc = "run_sync"
    /\ DispatchFrame
    /\ \E outcome \in BodyOutcomes :
        LET name == instance_names[Len(results) + 1]
            r == callback(outcome)
            collected == Append(results, r.code)
        IN  /\ ran' = Append(ran, [instance_name |-> name, multi_instance |-> TRUE,
                                   raised |-> outcome.raises,
                                   code |-> outcome.code])
            /\ IF r.raises
               THEN /\ config_instance_name' = name
                    /\ multi_instance' = TRUE
                    /\ Raise(ERR_BODY)
                    /\ UNCHANGED results
               ELSE /\ results' = collected
                    /\ IF Len(collected) = Len(instance_names)
                       THEN /\ config_instance_name' = PyNone
                            /\ multi_instance' = FALSE
                            /\ Return(multi_callback_return_code(collected))
                       ELSE /\ config_instance_name' = name
                            /\ multi_instance' = TRUE
                            /\ UNCHANGED <<pc, error, return_value>>
    /\ UNCHANGED <<instance_names, processes, completed, finished>>

\* workers that share one server object, as threads would: set_instance in
\* one is seen by all (compared against it)
set_instance_shared(procs, i) ==
    [j \in 1..Len(procs) |->
        [procs[j] EXCEPT !.current = procs[i].instance_name]]

\* server.set_instance(instance_name) of callback_wrapper in worker i: the
\* process started by Process.start works on its own copy of the server,
\* and instance_name is the loop's name at the time the process was made
set_instance_in_worker(procs, i) ==
    [procs EXCEPT ![i].current = procs[i].instance_name]

\* callback_wrapper, line 162, in a worker process started at line 168
callback_wrapper ==
    /\ pc = "poll"
    /\ DispatchFrame
    /\ \E i \in 1..Len(processes) :
        /\ processes[i].at = "started"
        /\ processes' = [set_instance_in_worker(processes, i)
                            EXCEPT ![i].at = "running"]
    /\ UNCHANGED <<config_instance_name, multi_instance, pc, instance_names,
                   results, completed, finished, ran, error, return_value>>

\* callback_wrapper, line 163, in a worker process: the command runs and
\* the process ends
worker_exit ==
    /\ pc = "poll"
    /\ DispatchFrame
    /\ \E i \in 1..Len(processes), outcome \in BodyOutcomes :
        /\ processes[i].at = "running"
        /\ processes' = [processes EXCEPT
                            ![i].alive = FALSE,
                            ![i].at = "ended",
                            ![i].outcome = <<outcome>>,
                            ![i].exitcode = <<worker_exitcode(outcome)>>]
        /\ finished' = Append(finished,
                              [instance_name |-> processes[i].instance_name,
                               status |-> worker_exitcode(outcome)])
    /\ UNCHANGED <<config_instance_name, multi_instance, pc, instance_names,
                   results, completed, ran, error, return_value>>

\* _run_parallel, one pass of the loop of lines 178-187; the pass that finds
\* no process alive goes on to line 193 and to multi_callback's return code
_run_parallel_poll ==
    /\ pc = "poll"
    /\ DispatchFrame
    /\ LET alive_list == [i \in 1..Len(processes) |-> processes[i].alive]
           not_done == \E i \in 1..Len(alive_list) : alive_list[i]
           exitcodes == [i \in 1..Len(processes) |-> processes[i].exitcode[1]]
       IN  /\ completed' = count(alive_list, FALSE)
           /\ IF not_done
              THEN UNCHANGED <<pc, results, error, return_value>>
              ELSE /\ results' = exitcodes
                   /\ Return(multi_callback_return_code(exitcodes))
    /\ UNCHANGED <<config_instance_name, multi_instance, instance_names,
                   processes, finished, ran>>

\* the state of decorators.py in a run that invokes no command
DispatchIdle ==
    /\ supports_multi_instance = FALSE
    /\ policy = "single_instance"
    /\ current_instance = NoSelector
    /\ foreground = FALSE
    /\ parallel = FALSE
    /\ pc = "ready"
    /\ instance_names = <<>>
    /\ results = <<>>
    /\ processes = NoProcesses
    /\ completed = 0
    /\ finished = <<>>
    /\ ran = <<>>
    /\ error = ERR_NONE
    /\ return_value = <<>>

DispatchNext ==
    \/ _wrapper
    \/ _run_sync
    \/ callback_wrapper
    \/ worker_exit
    \/ _run_parallel_poll

---------------------------------------------------------------------------
(* servers/base.py and servers/generic/screen.py: the PID file, the        *)
(* liveness checks and the commands of a server, run for the current       *)
(* instance by the invoking process or by a worker of a parallel run. The  *)
(* world is the server directory's files and the operating system's        *)
(* processes.                                                              *)

MaxOps == 2

\* the process ids the operating system hands out
Pids == {101, 102}

\* the pid psutil reports for the one child of process p (0: the invoking
\* process itself)
child_pid_of(p) == p + 1000

\* utils.get_server_path: the path of a file of the server directory
get_server_path(rel) == "/srv/server/" \o rel

\* the configuration object of the base (None) or of a named instance
config_of(name) == IF name = PyNone THEN server_config ELSE instances[name]

\* BaseServer._get_pid_filename and _get_pid_file_path for the configuration
\* object of name: config.parent is None for the base alone, and config.name
\* is the object's name option
_get_pid_file_path(name) ==
    get_server_path(IF config_of(name).kind # "InstanceConfig" THEN ".pid_file"
                    ELSE ".pid_file_" \o config_of(name).attrs["name"])

\* BaseServer.delete_offset / tail_file: the log offset file
offset_file == get_server_path(".log_offset")

\* os.remove(path) when the file exists
remove_file(w, path) ==
    [w EXCEPT !.files = [p \in DOMAIN w.files \ {path} |-> w.files[p]]]

\* open(path, "w").write(content)
write_file(w, path, content) ==
    [w EXCEPT !.files = [p \in DOMAIN w.files \cup {path} |->
                            IF p = path THEN content ELSE w.files[p]]]

\* BaseServer._read_pid_file / get_pid: no pid, or the pid of the file
get_pid(w, name) ==
    IF _get_pid_file_path(name) \in DOMAIN w.files
    THEN <<w.files[_get_pid_file_path(name)]>>
    ELSE <<>>

\* BaseServer._is_running_single(delete_pid)
_is_running_single(w, name, delete_pid) ==
    LET pid == get_pid(w, name)
    IN  IF pid # <<>> /\ pid[1] \in w.alive
        THEN [w |-> w, ret |-> TRUE, raised |-> FALSE]
        ELSE [w |-> IF pid # <<>> /\ delete_pid
                    THEN remove_file(w, _get_pid_file_path(name)) ELSE w,
              ret |-> FALSE, raised |-> FALSE]

\* ScreenServer._get_child_pid(delete_pid): psutil.Process(None) is the
\* invoking process itself
_get_child_pid(w, name, delete_pid) ==
    LET pid == get_pid(w, name)
        child_count == IF pid = <<>> THEN w.gs_children ELSE w.children[pid[1]]
    IN  IF pid # <<>> /\ pid[1] \notin w.alive
        THEN [w |-> IF delete_pid THEN remove_file(w, _get_pid_file_path(name))
                    ELSE w,
              pid |-> <<>>, raised |-> FALSE]
        ELSE IF child_count = 1
        THEN [w |-> w,
              pid |-> <<child_pid_of(IF pid = <<>> THEN 0 ELSE pid[1])>>,
              raised |-> FALSE]
        ELSE IF child_count = 0
        THEN [w |-> w, pid |-> pid, raised |-> FALSE]
        ELSE [w |-> w, pid |-> <<>>, raised |-> TRUE]

\* the value x handed on to the rest of the method, F
Bind(x, F(_)) == F(x)

\* BaseServer.is_running(check_all=False, delete_pid), which does not pass
\* delete_pid on, and ScreenServer.is_running(delete_pid)
is_running(w, name, delete_pid) ==
    IF server_class = "ScreenServer"
    THEN Bind(_get_child_pid(w, name, delete_pid), LAMBDA r :
              [w |-> r.w, ret |-> r.pid # <<>>, raised |-> r.raised])
    ELSE _is_running_single(w, name, TRUE)

\* BaseServer.is_accessible
is_accessible(w, name) == is_running(w, name, FALSE)

\* ---- the commands, as the set of ways each can go ----

\* a command's end: the world it leaves, the code it returned (none when it
\* raised) and the steps it took
Outcome(w, code, raised, steps_) ==
    [w |-> w, code |-> code, raised |-> raised, steps |-> steps_]

\* the process ids neither alive nor left in a PID file
FreePids(w) == Pids \ (w.alive \cup {w.files[p] : p \in DOMAIN w.files})

\* the world once the process of pid is gone, and its children with it
exited(w, pid) == [w EXCEPT !.alive = @ \ {pid}, !.children[pid] = 0]

\* BaseServer._startup_check: a pass of _wait's callback, then the checks of
\* lines 228-240
_startup_check(w, name, steps_) ==
    Bind(is_running(w, name, TRUE), LAMBDA pass :
    Bind(IF pass.raised \/ ~pass.ret THEN pass ELSE is_accessible(pass.w, name),
         LAMBDA pass2 :
    IF pass2.raised
    THEN Outcome(pass2.w, <<>>, TRUE, Append(steps_, "_startup_check"))
    ELSE
    Bind(is_running(pass2.w, name, TRUE), LAMBDA r :
    IF r.raised
    THEN Outcome(r.w, <<>>, TRUE, Append(steps_, "_startup_check"))
    ELSE IF ~r.ret
    THEN Outcome(r.w, <<STATUS_FAILED>>, FALSE, Append(steps_, "_startup_check"))
    ELSE
    Bind(is_accessible(r.w, name), LAMBDA a :
    IF a.raised
    THEN Outcome(a.w, <<>>, TRUE, Append(steps_, "_startup_check"))
    ELSE IF a.ret
    THEN Outcome(a.w, <<STATUS_SUCCESS>>, FALSE, Append(steps_, "_startup_check"))
    ELSE Outcome(a.w, <<STATUS_PARTIAL_FAIL>>, FALSE,
                 Append(steps_, "_startup_check"))))))

\* a start that launches without a look at is_running (compared against it)
start_always_launches(w, name, no_verify) ==
    {Outcome(w, <<>>, TRUE,
             <<"is_running", "_delete_pid_file", "run_command", "_find_pid">>)}
    \cup
    {Outcome(write_file([w EXCEPT !.alive = @ \cup {p}],
                        _get_pid_file_path(name), p),
             <<STATUS_SUCCESS>>, FALSE,
             <<"is_running", "_delete_pid_file", "run_command", "_find_pid">>)
        : p \in FreePids(w)}

\* BaseServer.start(no_verify, foreground=False) for the instance name: the
\* start command leaves a server process or none; the process lives through
\* the wait for it or dies
start(w, name, no_verify) ==
    Bind(is_running(w, name, TRUE), LAMBDA r :
    IF r.raised THEN {Outcome(r.w, <<>>, TRUE, <<"is_running">>)}
    ELSE IF r.ret
    THEN {Outcome(r.w, <<STATUS_PARTIAL_FAIL>>, FALSE, <<"is_running">>)}
    ELSE
    \* _delete_pid_file, then run_command, twice with spawn_process
    Bind([remove_file(r.w, _get_pid_file_path(name)) EXCEPT
             !.gs_children =
                 IF config_of(name).attrs["spawn_process"] = PyTrue THEN 2 ELSE @],
         LAMBDA w2 :
    Bind(<<"is_running", "_delete_pid_file", "run_command", "_find_pid">>,
         LAMBDA found :
    \* _find_pid: ps lists no process for the command
    {Outcome(w2, <<>>, TRUE, found)}
    \cup
    \* _find_pid: ps lists the process p, whose pid is written
    UNION {
      Bind(write_file([w2 EXCEPT !.alive = @ \cup {p},
                                 !.children[p] =
                                     IF server_class = "ScreenServer"
                                     THEN 1 ELSE 0],
                      _get_pid_file_path(name), p),
           LAMBDA w3 :
      IF no_verify
      THEN {Outcome(w3, <<STATUS_SUCCESS>>, FALSE, found)}
      ELSE {_startup_check(w3, name, found),
            _startup_check(exited(w3, p), name, found)})
      : p \in FreePids(w2)})))

\* the step list's entry for the code stop returned to restart
stop_returned(code) ==
    CASE code = STATUS_SUCCESS -> "stop returned 0"
      [] code = STATUS_FAILED -> "stop returned 1"
      [] OTHER -> "stop returned 2"

\* the checks that end BaseServer.stop, lines 649-654
stop_result(w, name, steps_) ==
    Bind(is_running(w, name, TRUE), LAMBDA r :
    IF r.raised THEN Outcome(r.w, <<>>, TRUE, Append(steps_, "is_running"))
    ELSE IF r.ret
    THEN Outcome(r.w, <<STATUS_PARTIAL_FAIL>>, FALSE, Append(steps_, "is_running"))
    ELSE Outcome(r.w, <<STATUS_SUCCESS>>, FALSE, Append(steps_, "is_running")))

\* the worlds a signal to, or a stop command for, the process of the PID file
\* can leave: the process gone by the next check, or still there
after_signal(w, pid) ==
    IF pid = <<>> THEN {w} ELSE {w, exited(w, pid[1])}

\* _wait(max_stop): a pass of the callback, then the checks that end stop
wait_max_stop(w, name, steps_) ==
    Bind(is_running(w, name, TRUE), LAMBDA pass :
    IF pass.raised
    THEN Outcome(pass.w, <<>>, TRUE, Append(steps_, "_wait max_stop"))
    ELSE stop_result(pass.w, name, Append(steps_, "_wait max_stop")))

\* a kill_server that sends no signal
kill_server_unsignalled(w, name, steps_) == {stop_result(w, name, steps_)}

\* BaseServer.kill_server, then the sleep and checks of stop's lines 646-654
kill_server(w, name, steps_) ==
    Bind(get_pid(w, name), LAMBDA pid :
    IF pid = <<>>
    THEN {stop_result(w, name, steps_)}
    ELSE {stop_result(w_, name, Append(steps_, "SIGKILL"))
             : w_ \in after_signal(w, pid)})

\* a graceful stop that sends SIGINT whatever the stop command reported
\* (compared against it)
graceful_stop_always_signals(w, name, commands) ==
    {wait_max_stop(w_, name,
                   (IF commands
                    THEN <<"is_running", "say_command", "_wait pre_stop",
                           "save_command", "stop_command">>
                    ELSE <<"is_running">>) \o <<"SIGINT">>)
        : w_ \in after_signal(w, get_pid(w, name))}

\* the graceful half of stop: _prestop and _wait(pre_stop) when commands are
\* configured, then _stop (ScreenServer's looks the child up first) and
\* _wait(max_stop)
graceful_stop(w, name, commands) ==
    Bind(IF commands
         THEN <<"is_running", "say_command", "_wait pre_stop">>
         ELSE <<"is_running">>, LAMBDA pre :
    Bind(IF server_class = "ScreenServer"
         THEN _get_child_pid(w, name, TRUE)
         ELSE [w |-> w, pid |-> <<>>, raised |-> FALSE], LAMBDA c :
    IF c.raised THEN {Outcome(c.w, <<>>, TRUE, pre)}
    ELSE
    Bind(get_pid(c.w, name), LAMBDA pid :
    \* the stop command succeeded: no signal is sent
    (IF commands
     THEN {wait_max_stop(w_, name, pre \o <<"save_command", "stop_command">>)
              : w_ \in after_signal(c.w, pid)}
     ELSE {})
    \cup
    \* no stop command, or it failed: SIGINT to the pid, if there is one
    {wait_max_stop(w_, name,
                   (IF commands
                    THEN pre \o <<"save_command", "stop_command",
                                  "stop_command failed">>
                    ELSE pre)
                   \o (IF c.pid # <<>> \/ pid # <<>> THEN <<"SIGINT">> ELSE <<>>))
        : w_ \in after_signal(c.w, pid)})))

\* BaseServer.stop(force) for the instance name; commands says whether the
\* server has a command command with say, save and stop commands configured
stop(w, name, force, commands) ==
    Bind(is_running(w, name, TRUE), LAMBDA r :
    IF r.raised THEN {Outcome(r.w, <<>>, TRUE, <<"is_running">>)}
    ELSE IF ~r.ret THEN {Outcome(r.w, <<STATUS_FAILED>>, FALSE, <<"is_running">>)}
    ELSE IF force THEN kill_server(r.w, name, <<"is_running">>)
    ELSE graceful_stop(r.w, name, commands))

\* restart's call of start after the steps taken so far
start_after(w, name, no_verify, steps_) ==
    {[s EXCEPT !.steps = steps_ \o <<"start">> \o s.steps]
        : s \in start(w, name, no_verify)}

\* a restart that gives up when stop does not return success
restart_unless_stop_failed(w, name, force, no_verify, commands) ==
    Bind(is_running(w, name, TRUE), LAMBDA r :
    IF r.raised THEN {Outcome(r.w, <<>>, TRUE, <<"is_running">>)}
    ELSE IF ~r.ret THEN start_after(r.w, name, no_verify, <<"is_running">>)
    ELSE UNION {
           IF o.raised
           THEN {[o EXCEPT !.steps = <<"is_running", "stop">> \o o.steps]}
           ELSE IF o.code # <<STATUS_SUCCESS>>
           THEN {[o EXCEPT !.steps = <<"is_running", "stop">> \o o.steps
                                     \o <<stop_returned(o.code[1])>>]}
           ELSE start_after(o.w, name, no_verify,
                            <<"is_running", "stop">> \o o.steps
                            \o <<stop_returned(o.code[1])>>)
           : o \in stop(r.w, name, force, commands)})

\* BaseServer.restart(force, no_verify) for the instance name
restart(w, name, force, no_verify, commands) ==
    Bind(is_running(w, name, TRUE), LAMBDA r :
    IF r.raised THEN {Outcome(r.w, <<>>, TRUE, <<"is_running">>)}
    ELSE IF ~r.ret THEN start_after(r.w, name, no_verify, <<"is_running">>)
    ELSE UNION {
           IF o.raised
           THEN {[o EXCEPT !.steps = <<"is_running", "stop">> \o o.steps]}
           ELSE start_after(o.w, name, no_verify,
                            <<"is_running", "stop">> \o o.steps
                            \o <<stop_returned(o.code[1])>>)
           : o \in stop(r.w, name, force, commands)})

\* BaseServer.tail(follow=False): delete_offset, then Pygtail reads the log
\* and writes the offset file
tail(w, name) ==
    LET w1 == remove_file(w, offset_file)
        w2 == write_file(w1, offset_file, 0)
        users == w.offset_users \cup {name}
    IN  Outcome([w2 EXCEPT !.offset_users = users], <<STATUS_SUCCESS>>, FALSE,
                <<"delete_offset", "tail_file">>)

\* ---- the configurations and the calls the model ranges over ----

ServerYamlChoices ==
    {[base |-> b, instance_overrides |-> o]
        : b \in {EmptyDict, [k \in {"spawn_process"} |-> PyTrue]},
          o \in {EmptyDict}
                \cup {[n \in {"alpha", "beta"} |->
                          IF n = "alpha" THEN a ELSE EmptyDict]
                      : a \in {EmptyDict, [k \in {"name"} |-> "a_name"]}}}

NoReturn ==
    [op |-> "none", instance |-> PyNone, arg |-> FALSE, flag |-> FALSE,
     code |-> <<>>, raised |-> FALSE]

EmptyWorld ==
    [files |-> EmptyDict, alive |-> {}, children |-> [p \in Pids |-> 0],
     gs_children |-> 0, offset_users |-> {}]

\* a server object is made for a loaded configuration; nothing has run
ServerInit ==
    /\ yaml_config \in ServerYamlChoices
    /\ server_config = load_config(yaml_config, FALSE).config
    /\ instances = load_config(yaml_config, FALSE).instances
    /\ config_instance_name = PyNone
    /\ multi_instance = FALSE
    /\ ctx_params = EmptyDict
    /\ config_ret = NoObject
    /\ server_class \in {"BaseServer", "ScreenServer"}
    /\ has_commands \in BOOLEAN
    /\ world = EmptyWorld
    /\ steps = <<>>
    /\ server_ret = NoReturn
    /\ ops = 0

\* what a call on the server, and the operating system, leave alone
ServerFrame ==
    UNCHANGED <<legacyVars, yaml_config, server_config, instances, multi_instance,
                ctx_params, config_ret, dispatchVars, server_class, has_commands,
                callVars>>

\* the base and the named instances
InstanceChoices == {PyNone} \cup DOMAIN instances

\* a command ends as o says
Ends(op_, arg_, name, o) ==
    /\ world' = o.w
    /\ steps' = o.steps
    /\ server_ret' = [op |-> op_, instance |-> name, arg |-> arg_,
                      flag |-> FALSE, code |-> o.code, raised |-> o.raised]

\* a liveness check ends as r says
Checked(op_, arg_, name, r) ==
    /\ world' = r.w
    /\ steps' = <<op_>>
    /\ server_ret' = [op |-> op_, instance |-> name, arg |-> arg_,
                      flag |-> r.ret, code |-> <<>>, raised |-> r.raised]

\* every call below is made with the current instance set to name (by
\* set_instance, as the instance wrapper and the runs do before a command)

\* a call of is_running(delete_pid=...)
BaseServer_is_running ==
    /\ ops < MaxOps
    /\ ops' = ops + 1
    /\ ServerFrame
    /\ \E name \in InstanceChoices, delete_pid \in BOOLEAN :
        /\ config_instance_name' = name
        /\ Checked("is_running", delete_pid, name,
                   is_running(world, name, delete_pid))

\* a call of is_accessible()
BaseServer_is_accessible ==
    /\ ops < MaxOps
    /\ ops' = ops + 1
    /\ ServerFrame
    /\ \E name \in InstanceChoices :
        /\ config_instance_name' = name
        /\ Checked("is_accessible", FALSE, name, is_accessible(world, name))

BaseServer_start ==
    /\ ops < MaxOps
    /\ ops' = ops + 1
    /\ ServerFrame
    /\ \E name \in InstanceChoices, no_verify \in BOOLEAN :
        /\ config_instance_name' = name
        /\ \E o \in start(world, name, no_verify) : Ends("start", no_verify, name, o)

BaseServer_stop ==
    /\ ops < MaxOps
    /\ ops' = ops + 1
    /\ ServerFrame
    /\ \E name \in InstanceChoices, force \in BOOLEAN :
        /\ config_instance_name' = name
        /\ \E o \in stop(world, name, force, has_commands) :
              Ends("stop", force, name, o)

BaseServer_restart ==
    /\ ops < MaxOps
    /\ ops' = ops + 1
    /\ ServerFrame
    /\ \E name \in InstanceChoices, force \in BOOLEAN :
        /\ config_instance_name' = name
        /\ \E o \in restart(world, name, force, FALSE, has_commands) :
              Ends("restart", force, name, o)

BaseServer_tail ==
    /\ ops < MaxOps
    /\ ops' = ops + 1
    /\ ServerFrame
    /\ \E name \in InstanceChoices :
        /\ config_instance_name' = name
        /\ Ends("tail", FALSE, name, tail(world, name))

\* the operating system: a server process ends, killed from outside or by
\* itself
process_exits ==
    /\ ServerFrame
    /\ \E p \in world.alive : world' = exited(world, p)
    /\ UNCHANGED <<config_instance_name, steps, server_ret, ops>>

\* the operating system: the number of children of a live screen process
\* changes (its server ends, or forks)
children_change ==
    /\ ServerFrame
    /\ server_class = "ScreenServer"
    /\ \E p \in world.alive, n \in 0..2 :
        /\ n # world.children[p]
        /\ world' = [world EXCEPT !.children[p] = n]
    /\ UNCHANGED <<config_instance_name, steps, server_ret, ops>>

\* the operating system: a child the invoking process left is reaped
child_reaped ==
    /\ ServerFrame
    /\ world.gs_children > 0
    /\ world' = [world EXCEPT !.gs_children = @ - 1]
    /\ UNCHANGED <<config_instance_name, steps, server_ret, ops>>

\* the state of the server object in a run that does not use it
ServerIdle ==
    /\ server_class = "BaseServer"
    /\ has_commands = FALSE
    /\ world = EmptyWorld
    /\ steps = <<>>
    /\ server_ret = NoReturn
    /\ ops = 0

ServerNext ==
    \/ BaseServer_is_running
    \/ BaseServer_is_accessible
    \/ BaseServer_start
    \/ BaseServer_stop
    \/ BaseServer_restart
    \/ BaseServer_tail
    \/ process_exits
    \/ children_change
    \/ child_reaped

---------------------------------------------------------------------------
(* A parallel run of start --no-verify for the instances alpha and beta,   *)
(* step by step: each worker of _run_parallel runs BaseServer.start in its *)
(* own process, on the files and processes all of them share.              *)

\* what a step of start in a worker leaves alone
StartFrame ==
    UNCHANGED <<legacyVars, configVars, supports_multi_instance, policy,
                current_instance, foreground, parallel, pc, instance_names,
                results, completed, finished, ran, error, return_value,
                server_class, has_commands, steps, server_ret, ops, callVars>>

\* the worker ends with the exit status code
worker_ends(procs, i, raises_, code) ==
    [procs EXCEPT ![i].at = "ended", ![i].alive = FALSE,
                  ![i].outcome = <<[raises |-> raises_, code |-> code]>>,
                  ![i].exitcode =
                      <<worker_exitcode([raises |-> raises_, code |-> code])>>]

\* start, lines 521-523: if self.is_running(): return STATUS_PARTIAL_FAIL
start_is_running ==
    /\ StartFrame
    /\ \E i \in 1..Len(processes) :
        /\ processes[i].at = "running"
        /\ LET r == is_running(world, processes[i].current, TRUE)
           IN  /\ world' = r.w
               /\ processes' =
                     IF r.raised
                     THEN worker_ends(processes, i, TRUE, STATUS_FAILED)
                     ELSE IF r.ret
                     THEN worker_ends(processes, i, FALSE, STATUS_PARTIAL_FAIL)
                     ELSE [processes EXCEPT ![i].at = "start"]

\* start, line 525: self._delete_pid_file()
start_delete_pid_file ==
    /\ StartFrame
    /\ \E i \in 1..Len(processes) :
        /\ processes[i].at = "start"
        /\ world' = remove_file(world, _get_pid_file_path(processes[i].current))
        /\ processes' = [processes EXCEPT ![i].at = "_delete_pid_file"]

\* start, lines 549-569: run_command (and the cat of spawn_process), which
\* leaves the server process p
start_run_command ==
    /\ StartFrame
    /\ \E i \in 1..Len(processes) :
        /\ processes[i].at = "_delete_pid_file"
        /\ \E p \in FreePids(world) :
            /\ world' = [world EXCEPT
                            !.alive = @ \cup {p},
                            !.children[p] = IF server_class = "ScreenServer"
                                            THEN 1 ELSE 0]
            /\ processes' = [processes EXCEPT ![i].at = "run_command",
                                              ![i].pid = <<p>>]

\* start, lines 574-576: _find_pid writes the pid ps lists for the server
\* process, and --no-verify returns STATUS_SUCCESS
start_find_pid ==
    /\ StartFrame
    /\ \E i \in 1..Len(processes) :
        /\ processes[i].at = "run_command"
        /\ world' = write_file(world, _get_pid_file_path(processes[i].current),
                               processes[i].pid[1])
        /\ processes' = worker_ends(processes, i, FALSE, STATUS_SUCCESS)

StartNext ==
    \/ callback_wrapper
    \/ start_is_running
    \/ start_delete_pid_file
    \/ start_run_command
    \/ start_find_pid
    \/ _run_parallel_poll

---------------------------------------------------------------------------
(* Single calls: the guard of decorators.py require, the merge of          *)
(* BaseConfig._update_config_from_dict, is_accessible of the server        *)
(* classes, cli.py _find_config_path, and SteamServer.install with its     *)
(* _stop_servers and _start_servers. `call` holds the arguments and what   *)
(* the call finds around it; `result` what it gave.                        *)

\* range(5) of _find_config_path
SearchLimit == 5

\* the contents "default" of the file .start_servers
DefaultMarker == <<"d", "e", "f", "a", "u", "l", "t">>

\* the calls the model ranges over. A directory is the sequence of names
\* from the root to it (the root is <<>>); a file is <<>> when it does not
\* exist and <<its contents>>, a sequence of characters, when it does.
\* the exit statuses of a worker process: what surpress passes to exit, 1
\* after an uncaught exception, and the negated signal number when a signal
\* ended the process (9: SIGKILL)
ExitStatuses == {-9, STATUS_SUCCESS, STATUS_FAILED, STATUS_PARTIAL_FAIL}

CallChoices ==
    \* require("start_command"): the kwarg, the option in the base Config
    \* (absent: no such attribute) and in the resolved configuration of the
    \* instance the command line targets
    {[fn |-> "require", kwarg |-> k, config_value |-> b, instance_value |-> a,
      target |-> t]
        : k \in {PyNone, "k_cmd"},
          t \in {PyNone, "alpha"},
          b \in {"absent", PyNone, "b_cmd"},
          a \in {PyNone, "b_cmd", "a_cmd"}}
    \cup
    {[fn |-> "merge", config_dict |-> d, ignore_unknown |-> u]
        : d \in UNION {SubDicts([k \in {"name", "max_start", "spawn_process",
                                        "foreground"} |->
                          CASE k = "name" -> n
                            [] k = "max_start" -> "m_max"
                            [] OTHER -> PyTrue]) : n \in {PyNone, "m_name"}},
          u \in BOOLEAN}
    \cup
    {[fn |-> "is_accessible", adapter |-> c, running |-> r, query_enabled |-> q,
      ping |-> p, rcon_enabled |-> e, connect |-> n]
        : c \in {"BaseServer", "SteamServer", "RconServer"},
          r \in BOOLEAN, q \in BOOLEAN, p \in BOOLEAN, e \in BOOLEAN,
          n \in BOOLEAN}
    \cup
    UNION {{[fn |-> "find", cwd |-> [i \in 1..d |-> i], config_files |-> f]
              : f \in SUBSET {[i \in 1..k |-> i] : k \in 0..d}}
           : d \in 0..MaxDepth}
    \cup
    \* _wait(seconds, callback) of stop and of _startup_check: holds[k] is
    \* what the k-th call of the callback returns, running and accessible
    \* what is_running and is_accessible return after the wait
    {[fn |-> "wait", caller |-> c, seconds |-> n, holds |-> h, running |-> r,
      accessible |-> a]
        : c \in {"stop", "_startup_check"}, n \in 0..MaxWait,
          h \in [1..MaxWait -> BOOLEAN], r \in BOOLEAN, a \in BOOLEAN}
    \cup
    \* the workers of a parallel run of one or two instances have all
    \* ended: exitcodes is what Process.exitcode gives for each
    {[fn |-> "collect", exitcodes |-> e]
        : e \in UNION {[1..n -> ExitStatuses] : n \in 1..2}}
    \cup
    {[fn |-> "install", all_instance_names |-> ns, running |-> r, restart |-> x,
      stop |-> y, marker |-> m, returncode |-> c]
        : ns \in {<<>>, <<"alpha", "beta">>},
          r \in SUBSET {"default", "alpha", "beta"},
          x \in BOOLEAN, y \in BOOLEAN,
          m \in {<<>>, <<DefaultMarker>>, <<Alpha>>,
                 <<Alpha \o Comma \o Beta>>},
          c \in {0, 1}}

\* decorators.py require(param)._callback. The guard wraps the instance
\* wrapper (base.py:459-461), so it runs before set_instance and
\* context.obj.config is the base Config; the configuration classes define
\* no validate, so the call of line 37 raises AttributeError.
require ==
    /\ call.fn = "require"
    /\ result.fn = "none"
    /\ LET value == call.kwarg
           config_value == call.config_value
       IN  result' =
             IF value = PyNone /\ config_value \in {"absent", PyNone}
             THEN [fn |-> "require", raised |-> "BadParameter",
                   body_ran |-> FALSE]
             ELSE [fn |-> "require", raised |-> "AttributeError",
                   body_ran |-> FALSE]
    /\ UNCHANGED <<legacyVars, configVars, dispatchVars, serverVars, call>>

\* BaseConfig._update_config_from_dict(config_dict, ignore_unknown) on a
\* Config object holding the class defaults
_update_config_from_dict ==
    /\ call.fn = "merge"
    /\ result.fn = "none"
    /\ result' =
          [fn |-> "merge",
           obj |-> BaseConfig_update_config_from_dict(
                       [kind |-> "Config", attrs |-> class_defaults,
                        raised |-> FALSE],
                       call.config_dict, call.ignore_unknown, FALSE)]
    /\ UNCHANGED <<legacyVars, configVars, dispatchVars, serverVars, call>>

\* is_accessible of BaseServer (base.py:381-382: what is_running returns),
\* of SteamServer (steam.py:113-119: the query answers, or no query is
\* configured) and of RconServer (rcon.py:92-100: SteamServer's, then the
\* RCON connection when RCON is enabled)
SteamServer_is_accessible ==
    /\ call.fn = "is_accessible"
    /\ result.fn = "none"
    /\ LET base == call.running
           steam == IF call.query_enabled THEN call.ping ELSE TRUE
           rcon == IF steam /\ call.rcon_enabled THEN call.connect ELSE steam
       IN  result' =
             [fn |-> "is_accessible",
              ret |-> CASE call.adapter = "BaseServer" -> base
                        [] call.adapter = "SteamServer" -> steam
                        [] OTHER -> rcon]
    /\ UNCHANGED <<legacyVars, configVars, dispatchVars, serverVars, call>>

\* a search that goes on until the root is reached (compared against it)
RECURSIVE _find_config_path_to_root(_, _, _, _)
_find_config_path_to_root(path, search_path, x, config_files) ==
    IF search_path = <<>>
    THEN [path |-> path, checks |-> x]
    ELSE IF search_path \in config_files
    THEN [path |-> search_path, checks |-> x + 1]
    ELSE _find_config_path_to_root(
             path, SubSeq(search_path, 1, Len(search_path) - 1), x + 1,
             config_files)

\* GSCommand._find_config_path, from pass x of the loop on: the directory
\* returned and the number of os.path.isfile calls made
RECURSIVE _find_config_path(_, _, _, _)
_find_config_path(path, search_path, x, config_files) ==
    IF x = SearchLimit \/ search_path = <<>>
    THEN [path |-> path, checks |-> x]
    ELSE IF search_path \in config_files
    THEN [path |-> search_path, checks |-> x + 1]
    ELSE _find_config_path(
             path, SubSeq(search_path, 1, Len(search_path) - 1), x + 1,
             config_files)

\* a call of _find_config_path in the working directory call.cwd
GSCommand_find_config_path ==
    /\ call.fn = "find"
    /\ result.fn = "none"
    /\ result' = [fn |-> "find",
                  found |-> _find_config_path(call.cwd, call.cwd, 0,
                                              call.config_files)]
    /\ UNCHANGED <<legacyVars, configVars, dispatchVars, serverVars, call>>

\* SteamServer.install(allow_run=False, force=True) with --restart and
\* --stop as the call says. A Python value is its type and its items; the
\* commands install invokes are logged with the selector they are given.
SteamServer_install ==
    /\ call.fn = "install"
    /\ result.fn = "none"
    /\ LET names == call.all_instance_names
           \* BaseServer.is_running(check_all=True): a list of booleans when
           \* instances are configured, one boolean otherwise
           was_running ==
               IF Len(names) > 0
               THEN [type |-> "list",
                     items |-> [i \in 1..Len(names) |->
                                   names[i] \in call.running]]
               ELSE [type |-> "bool", items |-> <<"default" \in call.running>>]
           \* if was_running: a non-empty list is true
           stopping ==
               IF was_running.type = "bool" THEN was_running.items[1]
               ELSE Len(was_running.items) > 0
           done(code, raised, marker, invoked) ==
               [fn |-> "install", code |-> code, raised |-> raised,
                marker |-> marker, invoked |-> invoked]
           \* _stop_servers: stop is invoked, then .start_servers is opened
           \* for writing and "default" or ",".join(was_running) written;
           \* join raises TypeError for a list of booleans
           invoked1 ==
               IF stopping
               THEN <<[cmd |-> "stop", current_instances |-> PyNone]>>
               ELSE <<>>
           marker1 ==
               IF ~stopping THEN call.marker
               ELSE IF was_running.type = "bool" THEN <<DefaultMarker>>
               ELSE <<<<>>>>
           \* _was_running_from_disk: f.read().strip().split(",") (the
           \* contents hold no white space), then os.remove
           listed == split(marker1[1])
           \* ",".join(l) of a non-empty list of strings
           RECURSIVE join(_)
           join(l) == IF Len(l) = 1 THEN l[1]
                      ELSE l[1] \o "," \o join(Tail(l))
       IN  result' =
             IF stopping /\ ~(call.restart \/ call.stop)
             THEN done(<<STATUS_PARTIAL_FAIL>>, "none", call.marker, <<>>)
             ELSE IF stopping /\ was_running.type = "list"
             THEN done(<<>>, "TypeError", marker1, invoked1)
             ELSE IF call.returncode # 0
             THEN done(<<STATUS_FAILED>>, "none", marker1, invoked1)
             \* _start_servers(restart, was_running)
             ELSE IF ~call.restart
             THEN done(<<STATUS_SUCCESS>>, "none", marker1, invoked1)
             ELSE IF stopping
             THEN \* len(was_running) of the boolean True
                  done(<<>>, "TypeError", marker1, invoked1)
             ELSE IF marker1 = <<>>
             THEN done(<<STATUS_SUCCESS>>, "none", marker1, invoked1)
             ELSE done(<<STATUS_SUCCESS>>, "none", <<>>,
                       Append(invoked1,
                              IF Len(listed) = 1 /\ listed[1] = "default"
                              THEN [cmd |-> "start",
                                    current_instances |-> PyNone]
                              ELSE [cmd |-> "start",
                                    current_instances |->
                                        "@each:" \o join(listed)]))
    /\ UNCHANGED <<legacyVars, configVars, dispatchVars, serverVars, call>>

\* a wait that goes through all its seconds whatever the callback returns
\* (compared against it)
RECURSIVE _wait_to_the_end(_, _, _)
_wait_to_the_end(seconds, holds, item) ==
    IF item = seconds THEN item
    ELSE _wait_to_the_end(seconds, holds, item + 1)

\* BaseServer._wait(seconds, callback) from pass item of the loop over
\* range(seconds) on: the number of calls of the callback made. A call that
\* returns True breaks the loop, any other is followed by time.sleep(1).
RECURSIVE _wait(_, _, _)
_wait(seconds, holds, item) ==
    IF item = seconds THEN item
    ELSE IF holds[item + 1] THEN item + 1
    ELSE _wait(seconds, holds, item + 1)

\* the wait of stop with the checks that follow it (base.py:634-654), and
\* the wait of _startup_check with its checks (base.py:219-240)
BaseServer_wait ==
    /\ call.fn = "wait"
    /\ result.fn = "none"
    /\ result' =
          [fn |-> "wait",
           polls |-> _wait(call.seconds, call.holds, 0),
           code |-> IF call.caller = "stop"
                    THEN IF call.running THEN STATUS_PARTIAL_FAIL
                         ELSE STATUS_SUCCESS
                    ELSE IF ~call.running THEN STATUS_FAILED
                    ELSE IF call.accessible THEN STATUS_SUCCESS
                    ELSE STATUS_PARTIAL_FAIL]
    /\ UNCHANGED <<legacyVars, configVars, dispatchVars, serverVars, call>>

\* _run_parallel's return (decorators.py:193) and multi_callback's count of
\* the results (decorators.py:246-263)
_run_parallel_return ==
    /\ call.fn = "collect"
    /\ result.fn = "none"
    /\ result' = [fn |-> "collect",
                  results |-> call.exitcodes,
                  return_code |-> multi_callback_return_code(call.exitcodes)]
    /\ UNCHANGED <<legacyVars, configVars, dispatchVars, serverVars, call>>

\* the state of a run that makes no single call
CallsIdle ==
    /\ call = [fn |-> "none"]
    /\ result = [fn |-> "none"]

CallsNext ==
    \/ require
    \/ _update_config_from_dict
    \/ SteamServer_is_accessible
    \/ GSCommand_find_config_path
    \/ BaseServer_wait
    \/ _run_parallel_return
    \/ SteamServer_install

---------------------------------------------------------------------------
(* Specifications *)

\* a run of the legacy engines alone
InitLegacy ==
    LegacyInit /\ ConfigIdle /\ DispatchIdle /\ ServerIdle /\ CallsIdle

SpecLegacy == InitLegacy /\ [][LegacyNext]_vars

\* a run of command/config.py alone
InitConfig ==
    ConfigInit /\ LegacyIdle /\ DispatchIdle /\ ServerIdle /\ CallsIdle

SpecConfig == InitConfig /\ [][ConfigNext]_vars

\* one invocation of a command
InitDispatch == DispatchInit /\ LegacyIdle /\ ServerIdle /\ CallsIdle

SpecDispatch == InitDispatch /\ [][DispatchNext]_vars

\* a dispatch whose workers all end and whose poll loop keeps running
SpecDispatchFair ==
    /\ InitDispatch
    /\ [][DispatchNext]_vars
    /\ WF_vars(callback_wrapper)
    /\ WF_vars(worker_exit)
    /\ WF_vars(_run_parallel_poll)

\* calls on one server object, and the operating system around it
InitServer == ServerInit /\ LegacyIdle /\ DispatchIdle /\ CallsIdle

SpecServer == InitServer /\ [][ServerNext]_vars

\* the parallel run has started its workers; the server directory holds no
\* PID file
InitStart ==
    /\ yaml_config \in {y \in ServerYamlChoices : y.instance_overrides # EmptyDict}
    /\ server_config = load_config(yaml_config, FALSE).config
    /\ instances = load_config(yaml_config, FALSE).instances
    /\ config_instance_name = PyNone
    /\ multi_instance = FALSE
    /\ ctx_params = EmptyDict
    /\ config_ret = NoObject
    /\ supports_multi_instance = TRUE
    /\ policy = "multi_instance"
    /\ current_instance = AtAll
    /\ foreground = FALSE
    /\ parallel = TRUE
    /\ pc = "poll"
    /\ instance_names = <<"alpha", "beta">>
    /\ results = <<>>
    /\ processes = [i \in 1..2 |->
                      [instance_name |-> instance_names[i],
                       current |-> PyNone, at |-> "started", alive |-> TRUE,
                       pid |-> <<>>, outcome |-> <<>>, exitcode |-> <<>>]]
    /\ completed = 0
    /\ finished = <<>>
    /\ ran = <<>>
    /\ error = ERR_NONE
    /\ return_value = <<>>
    /\ server_class \in {"BaseServer", "ScreenServer"}
    /\ has_commands = FALSE
    /\ world = EmptyWorld
    /\ steps = <<>>
    /\ server_ret = NoReturn
    /\ ops = 0
    /\ LegacyIdle /\ CallsIdle

SpecStart == InitStart /\ [][StartNext]_vars

\* one call, of any of the functions and commands of CallChoices
InitCalls ==
    /\ call \in CallChoices
    /\ result = [fn |-> "none"]
    /\ LegacyIdle /\ ConfigIdle /\ DispatchIdle /\ ServerIdle

SpecCalls == InitCalls /\ [][CallsNext]_vars

---------------------------------------------------------------------------
(* Claims about the configuration engines of config.py and cli.py *)

\* the fields the precedence claims range over (path is computed, not read)
LegacyFields == {"user", "delay_start", "debug", "ark_config"}

\* an option the command line gave: config.py drops None and unset flags,
\* cli.py drops None
CliGave(params, k) == k \in DOMAIN params /\ params[k] \notin {PyNone, PyFalse}
GsCliGave(params, k) == k \in DOMAIN params /\ params[k] # PyNone

\* the file's value for k, else the default (an unset debug defaults to False)
FileOrDefault(k) ==
    IF k \in DOMAIN file_config THEN file_config[k]
    ELSE IF k \in DOMAIN default_config THEN default_config[k]
    ELSE PyFalse

\* the section 3 formula for the base
ExpectedBase(k) ==
    IF k \in DOMAIN cli_config THEN cli_config[k]
    ELSE IF CliGave(context_params, k) THEN context_params[k]
    ELSE FileOrDefault(k)

\* the section 3 formula for instance I
ExpectedInstance(I, k) ==
    IF k \in DOMAIN cli_config THEN cli_config[k]
    ELSE IF CliGave(context_params, k) THEN context_params[k]
    ELSE IF I \in DOMAIN instance_overrides /\ k \in DOMAIN instance_overrides[I]
         THEN instance_overrides[I][k]
    ELSE FileOrDefault(k)

C2_InstancePrecedence ==
    (last.op = "get_instance_config" /\ last.name # PyNone) =>
        \A k \in {"user", "delay_start"} :
            last.ret[k] = ExpectedInstance(last.name, k)

\* what the base resolves to, and what get_instance_config(b) would return
ResolvedBase == View(final_after_set, heap)

ResolvedInstance(b) ==
    IF b \in DOMAIN _instances
    THEN View(_instances[b], heap)
    ELSE LET made == _make_final_config(b)
         IN  View(dict_set(made, "name", made["name"] \o "_" \o b),
                  heap_after_make(b))

\* C4 (as claimed): a resolution of instance A leaves unchanged what every
\* other instance and the base resolve to, and the stored overrides.
C4_OverrideIsolation ==
    [][(last'.op = "get_instance_config" /\ calls' = calls + 1) =>
          /\ instance_overrides' = instance_overrides
          /\ ResolvedBase' = ResolvedBase
          /\ \A b \in DOMAIN instance_overrides \ {last'.name} :
                 ResolvedInstance(b)' = ResolvedInstance(b)]_vars

\* C5 (as claimed): while the inputs stay the same, every resolution of a
\* name returns field for field the mapping its first resolution returned.
C5_IdempotentResolution ==
    last.op = "get_instance_config" => last.ret = first_result[last.name]

\* C36: when the override of an instance gives a dict for a field, the
\* mapping get_instance_config returns for the instance holds, for that
\* field, the base's dict with the entries of the override's dict merged in:
\* the base's other entries are kept
C36_DictOverrideMerges ==
    [][(/\ last'.op = "get_instance_config"
        /\ calls' = calls + 1
        /\ last'.name \in DOMAIN instance_overrides
        /\ dict_keys(instance_overrides[last'.name]) # {})
          => \A k \in dict_keys(instance_overrides[last'.name]) :
                 last'.ret[k] =
                     dict_update(ResolvedBase[k],
                                 heap[instance_overrides[last'.name][k]])]_vars

\* alpha, whose override gives ark_config the entry q, resolves to the
\* file's ark_config with q added
C36_Witness ==
    /\ last.op = "get_instance_config"
    /\ last.name = "alpha"
    /\ "ark_config" \in DOMAIN file_config
    /\ DOMAIN last.ret["ark_config"] = {"p", "q"}
    /\ last.ret["ark_config"]["p"] = "file_p"
    /\ last.ret["ark_config"]["q"] = "alpha_q"

\* C38 (as claimed): the mapping get_instance_config returns holds the
\* command's option as the command line gives it now: the value set by the
\* last set_cli_config or add_cli_config when there is one, and no value an
\* earlier command line gave when there is none.
C38_InstanceConfigFollowsCli ==
    last.op = "get_instance_config" =>
        (last.ret["delay_start"] = "c_delay" <=> "delay_start" \in DOMAIN cli_config)



---------------------------------------------------------------------------
(* Claims about the configuration objects of command/config.py *)

\* the value the file configures for an option: the base mapping's, else
\* the class default; for an instance, its override's when it has one
FileValue(n, k) ==
    LET base == IF k \in DOMAIN yaml_config.base
                THEN yaml_config.base[k] ELSE class_defaults[k]
    IN  IF n # "default" /\ k \in DOMAIN yaml_config.instance_overrides[n]
        THEN yaml_config.instance_overrides[n][k]
        ELSE base

\* the command line was parsed with the flag left unset
FlagUnset(k) == k \in DOMAIN ctx_params /\ ctx_params[k] = PyFalse

\* C3: a boolean flag the command line left unset (parsed as false) never
\* replaces a file-configured true: once the command line is applied, the
\* field is still true in the base configuration and in every instance.
C3_UnsetFlagKeepsFileTrue ==
    FlagUnset("spawn_process") =>
        /\ FileValue("default", "spawn_process") = PyTrue
              => server_config.attrs["spawn_process"] = PyTrue
        /\ \A n \in DOMAIN instances :
              FileValue(n, "spawn_process") = PyTrue
                  => instances[n].attrs["spawn_process"] = PyTrue


---------------------------------------------------------------------------
(* Claims about the dispatch of decorators.py *)

\* the selectors of the form @each:..., and the names each one lists
EachSelectors == {sel \in SelectorChoices : startswith(sel, AtEach)}

ListedNames(sel) ==
    CASE sel = AtEach -> <<"">>
      [] sel = AtEach \o Alpha -> <<"alpha">>
      [] sel = AtEach \o Beta \o Comma \o Alpha -> <<"beta", "alpha">>
      [] sel = AtEach \o Alpha \o Comma \o Alpha -> <<"alpha", "alpha">>
      [] sel = AtEach \o Alpha \o Comma \o Beta \o Comma \o Gamma
            -> <<"alpha", "beta", "gamma">>

BareSelectors == {Alpha, Gamma}

BareName(sel) == IF sel = Alpha THEN "alpha" ELSE "gamma"

AllListedDefined(sel) ==
    \A i \in 1..Len(ListedNames(sel)) : ListedNames(sel)[i] \in DOMAIN instances

\* the instance names of the configuration file, in the file's order
ConfiguredNames ==
    IF DOMAIN instances = {} THEN <<>>
    ELSE IF DOMAIN instances = {"alpha", "beta"} THEN <<"alpha", "beta">>
    ELSE <<"alpha", "beta", "gamma">>

\* the command's body was run for no instance, in no process
NoBodyRan == ran = <<>> /\ processes = <<>> /\ finished = <<>>

\* C6: on a server type with multi-instance support, once the wrapper has
\* acted: @all gives exactly the configured instance names in configuration
\* order; @each:a,b gives exactly the listed names when all are defined;
\* a listed or bare name that is not defined ends the invocation with the
\* unknown-instance error before the body has run for any instance.
C6_SelectorExpansion ==
    (supports_multi_instance /\ pc # "ready") =>
        /\ current_instance = AtAll =>
              instance_names = ConfiguredNames /\ error # ERR_UNKNOWN
        /\ current_instance \in EachSelectors =>
              IF AllListedDefined(current_instance)
              THEN instance_names = ListedNames(current_instance)
                   /\ error # ERR_UNKNOWN
              ELSE pc = "raised" /\ error = ERR_UNKNOWN /\ NoBodyRan
        /\ (current_instance \in BareSelectors
              /\ BareName(current_instance) \notin DOMAIN instances) =>
              pc = "raised" /\ error = ERR_UNKNOWN /\ NoBodyRan

C6_Witness ==
    /\ supports_multi_instance
    /\ current_instance = AtEach \o Beta \o Comma \o Alpha
    /\ instance_names = <<"beta", "alpha">>
    /\ Len(ran) = 2
    /\ \A i \in 1..2 : ran[i].multi_instance /\ ~ran[i].raised
    /\ ran[1].instance_name = "beta"
    /\ ran[2].instance_name = "alpha"
    /\ pc = "returned"

\* the selector is @all or begins with @each:
IsMultiSelector == current_instance = AtAll \/ current_instance \in EachSelectors

\* C7 as stated: a single_instance command invoked with @all or any
\* @each:... always ends with the multi-instance-not-supported error and
\* never runs the body, whatever names the @each list holds (taken on a
\* server type that supports multiple instances).
C7_SingleAlwaysNotSupported ==
    (policy = "single_instance" /\ supports_multi_instance /\ IsMultiSelector
       /\ pc # "ready")
        => (pc = "raised" /\ error = ERR_SINGLE /\ NoBodyRan)

\* C7, amended: a single_instance command invoked with @all or @each:...
\* always ends with an error and never runs the body; the error is the
\* multi-instance-not-supported one exactly when the server type supports
\* multiple instances and every name the @each list holds is defined.
\* Otherwise it is the unsupported-type or the unknown-instance error.
C7_SingleNeverRuns ==
    (policy = "single_instance" /\ IsMultiSelector /\ pc # "ready") =>
        /\ pc = "raised"
        /\ NoBodyRan
        /\ error = (IF ~supports_multi_instance THEN ERR_UNSUPPORTED
                    ELSE IF current_instance \in EachSelectors
                            /\ ~AllListedDefined(current_instance)
                         THEN ERR_UNKNOWN
                         ELSE ERR_SINGLE)

C7_Witness ==
    /\ policy = "single_instance"
    /\ supports_multi_instance
    /\ current_instance = AtEach \o Alpha \o Comma \o Beta \o Comma \o Gamma
    /\ DOMAIN instances = {"alpha", "beta", "gamma"}
    /\ pc = "raised"
    /\ error = ERR_SINGLE

\* the aggregation rule: all Success, all Failure, or any other mix
AggregateRule(l) ==
    IF \A i \in 1..Len(l) : l[i] = 0 THEN 0
    ELSE IF \A i \in 1..Len(l) : l[i] = 1 THEN 1
    ELSE 2

\* C8: when a multi-instance dispatch returns with a non-empty list of
\* results over {0, 1, 2}, the code it returns is 0 when every result is 0,
\* 1 when every result is 1, and 2 for every other mix.
C8_Aggregation ==
    (pc = "returned" /\ results # <<>> /\ list_values(results) \subseteq {0, 1, 2})
        => return_value = <<AggregateRule(results)>>

C8_Witness ==
    /\ pc = "returned"
    /\ results = <<1, 1, 1>>
    /\ return_value = <<1>>

\* the exit statuses of the workers, in the order the workers ended
FinishStatuses == [i \in 1..Len(finished) |-> finished[i].status]

\* C9: when a parallel run returns, the collected exit statuses are the
\* workers' statuses as a multiset, and the code returned is the one the
\* statuses give when taken in the order the workers ended: the order of
\* ending does not matter.
C9_ParallelOrderIndependent ==
    (pc = "returned" /\ processes # <<>>) =>
        /\ \A v \in {0, 1, 2} : count(results, v) = count(FinishStatuses, v)
        /\ Len(results) = Len(FinishStatuses)
        /\ return_value = <<multi_callback_return_code(FinishStatuses)>>

C9_Witness ==
    /\ pc = "returned"
    /\ instance_names = <<"alpha", "beta", "gamma">>
    /\ finished = <<[instance_name |-> "gamma", status |-> 0],
                    [instance_name |-> "alpha", status |-> 1],
                    [instance_name |-> "beta", status |-> 0]>>
    /\ results = <<1, 0, 0>>
    /\ return_value = <<2>>

\* C10: in a sequential run, when the command raises for a plan entry the
\* invocation ends with that exception: no return code is produced, the
\* entry is the last one run (none after it, and nothing else is run for
\* it), and the runs made are the plan's entries up to it, once each.
C10_SequentialRaisePropagates ==
    \A i \in 1..Len(ran) :
        (ran[i].multi_instance /\ ran[i].raised) =>
            /\ pc = "raised"
            /\ error = ERR_BODY
            /\ return_value = <<>>
            /\ i = Len(ran)
            /\ Len(ran) <= Len(instance_names)
            /\ \A j \in 1..Len(ran) : ran[j].instance_name = instance_names[j]
            /\ processes = <<>>

C10_Witness ==
    /\ instance_names = <<"alpha", "beta">>
    /\ results = <<0>>
    /\ ran = <<[instance_name |-> "alpha", multi_instance |-> TRUE,
                 raised |-> FALSE, code |-> 0],
               [instance_name |-> "beta", multi_instance |-> TRUE,
                 raised |-> TRUE, code |-> 1]>>
    /\ pc = "raised"
    /\ return_value = <<>>


\* what the command did in the worker for instance n (none while it runs)
WorkerOutcome(n) ==
    {processes[i].outcome : i \in {j \in 1..Len(processes) :
                                      processes[j].instance_name = n}}

Succeeded == <<[raises |-> FALSE, code |-> 0]>>

\* the command failed: it returned the Failure code, or raised
FailedOutcomes == {<<[raises |-> FALSE, code |-> 1]>>, <<[raises |-> TRUE, code |-> 1]>>}

C12_EmptyPlanRunsBase ==
    (policy = "multi_instance" /\ supports_multi_instance /\ ~foreground
       /\ current_instance = AtAll /\ DOMAIN instances = {}
       /\ pc \in {"returned", "raised"})
        => /\ Len(ran) = 1
           /\ ran[1].instance_name = PyNone

C21_UnsupportedTypeRejectsSelector ==
    (pc # "ready" /\ ~supports_multi_instance /\ current_instance # NoSelector)
        => (pc = "raised" /\ error = ERR_UNSUPPORTED /\ NoBodyRan)

\* a bare name that is a configured instance was rejected
C21_Witness ==
    /\ ~supports_multi_instance
    /\ current_instance = Alpha
    /\ "alpha" \in DOMAIN instances
    /\ pc = "raised"
    /\ error = ERR_UNSUPPORTED
    /\ NoBodyRan

\* C22: a command invoked with --foreground and @all or @each:... ends with
\* an error before any work starts: no worker process was made and the body
\* has run for no instance.
C22_ForegroundRejectsMulti ==
    (pc # "ready" /\ foreground /\ IsMultiSelector)
        => (pc = "raised" /\ NoBodyRan)

\* a multi_instance command on a supporting server type, with instances to
\* run for, was rejected for --foreground
C22_Witness ==
    /\ foreground
    /\ current_instance = AtAll
    /\ instance_names = <<"alpha", "beta">>
    /\ pc = "raised"
    /\ error = ERR_FOREGROUND
    /\ NoBodyRan

\* C28: in a sequential run the body is invoked once per entry of the plan,
\* in the plan's order (the k-th invocation is for the k-th entry, and a run
\* that returned made as many invocations as the plan has entries), and the
\* i-th collected result is what the i-th invocation returned.
C28_SequentialInPlanOrder ==
    (ran # <<>> /\ ran[1].multi_instance) =>
        /\ Len(ran) <= Len(instance_names)
        /\ \A k \in 1..Len(ran) : ran[k].instance_name = instance_names[k]
        /\ Len(results) <= Len(ran)
        /\ \A i \in 1..Len(results) : ~ran[i].raised /\ results[i] = ran[i].code
        /\ pc = "returned" => Len(results) = Len(instance_names)

\* a plan naming alpha twice ran alpha twice, with different results
C28_Witness ==
    /\ pc = "returned"
    /\ instance_names = <<"alpha", "alpha">>
    /\ Len(ran) = 2
    /\ results = <<2, 0>>

\* the exit status of the worker of the i-th process
ExitStatus(i) ==
    IF processes[i].outcome[1].raises THEN 1 ELSE processes[i].outcome[1].code

\* C29: a parallel run returns only when every worker it started has ended,
\* and then has one exit status per entry of the plan, in the plan's order;
\* and when every worker ends, the run returns.
C29_ParallelWaitsForAll ==
    /\ [](processes # <<>> =>
            /\ Len(processes) = Len(instance_names)
            /\ \A i \in 1..Len(processes) :
                  processes[i].instance_name = instance_names[i]
            /\ pc = "returned" =>
                  /\ \A i \in 1..Len(processes) : ~processes[i].alive
                  /\ Len(results) = Len(instance_names)
                  /\ \A i \in 1..Len(results) : results[i] = ExitStatus(i))
    /\ (pc = "poll") ~> (pc = "returned")

\* a parallel run of three workers returned their statuses in plan order
C29_Witness ==
    /\ pc = "returned"
    /\ instance_names = <<"alpha", "beta", "gamma">>
    /\ Len(processes) = 3
    /\ finished[1].instance_name = "gamma"
    /\ results = <<2, 0, 1>>

\* C30: when a dispatch that set the current instance (a sequential run, or
\* the run for one bare name) has ended, by returning or by raising, the
\* configuration's current instance is None again.
C30_InstanceResetOnEveryEnd ==
    (pc \in {"returned", "raised"} /\ ran # <<>>)
        => config_instance_name = PyNone

\* C31: a parallel run has exactly one worker per plan entry; from its
\* set_instance to its end a worker's current instance is its own plan
\* entry, and a worker's set_instance changes neither the current instance
\* of a worker that has not set its own yet nor the dispatcher's
C31_WorkersAreIsolated ==
    processes # <<>>
        => /\ Len(processes) = Len(instance_names)
           /\ config_instance_name = PyNone
           /\ ~multi_instance
           /\ \A i \in 1..Len(processes) :
                 processes[i].current =
                     IF processes[i].at = "started" THEN PyNone
                     ELSE instance_names[i]

\* of three workers the last has ended, the second is running the command
\* and the first has not set its instance yet
C31_Witness ==
    /\ Len(processes) = 3
    /\ processes[1].at = "started" /\ processes[1].current = PyNone
    /\ processes[2].at = "running" /\ processes[2].current = "beta"
    /\ processes[3].at = "ended" /\ processes[3].current = "gamma"

---------------------------------------------------------------------------
(* Claims about the PID file, the liveness checks and the commands, under  *)
(* SpecServer                                                              *)

\* the step is a call of op_ that ended (returned or raised)
Called(op_) == ops' = ops + 1 /\ server_ret'.op = op_

\* the instance the step's call was made for
Callee == server_ret'.instance

\* no process is tracked for name, or the tracked process is dead
NotTracked(w, name) ==
    get_pid(w, name) = <<>> \/ get_pid(w, name)[1] \notin w.alive

\* C13: once the tracked process has died, a call of is_running returns
\* false and removes the PID file, and a call of is_running made while no PID
\* file exists returns false and raises nothing, for either server class
C13_StalePidIsNotRunning ==
    [][(Called("is_running") /\ server_ret'.arg /\ NotTracked(world, Callee))
       => /\ ~server_ret'.raised
          /\ ~server_ret'.flag
          /\ _get_pid_file_path(Callee) \notin DOMAIN world'.files]_vars

\* C14: a liveness check made with delete_pid=False (is_accessible, or
\* is_running(delete_pid=False)) leaves every file, the PID file among them,
\* as it was
C14_NoDeleteKeepsPidFile ==
    [][(Called("is_accessible") \/ (Called("is_running") /\ ~server_ret'.arg))
       => world'.files = world.files]_vars

\* C15: two distinct named instances, and a named instance and the base,
\* have different PID file paths
C15_PidPathsDistinct ==
    \A a, b \in InstanceChoices :
        a # b => _get_pid_file_path(a) # _get_pid_file_path(b)

\* C16: the workers of a parallel run, one per named instance, never use the
\* same log offset file and never the same PID file
C16_WorkersShareNoFile ==
    \A a, b \in DOMAIN instances :
        a # b => /\ ~({a, b} \subseteq world.offset_users)
                 /\ _get_pid_file_path(a) # _get_pid_file_path(b)

\* the step x is among those the command took
Took(steps_, x) == \E i \in 1..Len(steps_) : steps_[i] = x

\* C17: a start that got past the already-running check and left no live
\* tracked process returns STATUS_FAILED and raises nothing
C17_FailedStartReturnsFailure ==
    [][(/\ Called("start")
        /\ ~server_ret'.arg
        /\ Len(steps') > 1
        /\ NotTracked(world', Callee))
       => /\ ~server_ret'.raised
          /\ server_ret'.code = <<STATUS_FAILED>>]_vars

\* the steps of a graceful stop: the pre-stop broadcast, the grace wait, the
\* save and stop commands, the interrupt signal and the wait for the end
GracefulSteps ==
    {"say_command", "_wait pre_stop", "save_command", "stop_command",
     "SIGINT", "_wait max_stop"}

\* the step is stop --force for an instance whose tracked process is alive
\* and found running
ForcedStopOfRunning ==
    /\ Called("stop")
    /\ server_ret'.arg
    /\ ~NotTracked(world, Callee)
    /\ is_running(world, Callee, TRUE).ret

\* C18: stop --force on a running instance takes none of the graceful steps,
\* sends SIGKILL to the tracked pid, and when it returns, returns
\* STATUS_SUCCESS exactly when the tracked process is gone
C18_ForceStopKillsAtOnce ==
    [][ForcedStopOfRunning
       => /\ \A x \in GracefulSteps : ~Took(steps', x)
          /\ Took(steps', "SIGKILL")
          /\ ~server_ret'.raised
                => (server_ret'.code = <<STATUS_SUCCESS>>
                        <=> NotTracked(world', Callee))]_vars

\* a forced stop of a live server with a stop command configured returned
\* success
C18_Witness ==
    /\ server_ret.op = "stop"
    /\ server_ret.arg
    /\ has_commands
    /\ Took(steps, "SIGKILL")
    /\ server_ret.code = <<STATUS_SUCCESS>>

\* C19: restart calls stop exactly when the instance is running, and calls
\* start whenever stop returned, whatever code stop returned
C19_RestartAlwaysStarts ==
    [][Called("restart")
       => /\ Took(steps', "stop")
                <=> (is_running(world, Callee, TRUE).ret)
          /\ (Took(steps', "stop returned 0") \/ Took(steps', "stop returned 1")
              \/ Took(steps', "stop returned 2") \/ ~Took(steps', "stop"))
                => (Took(steps', "start") \/ is_running(world, Callee, TRUE).raised)
          /\ ~server_ret'.raised => Took(steps', "start")]_vars

\* a restart whose stop returned STATUS_PARTIAL_FAIL went on to start
C19_Witness ==
    /\ server_ret.op = "restart"
    /\ Took(steps, "stop returned 2")
    /\ Took(steps, "start")

\* the instance name is running: its PID file holds the pid of a live
\* process, which for a screen server has exactly one child
Running(w, name) ==
    /\ get_pid(w, name) # <<>>
    /\ get_pid(w, name)[1] \in w.alive
    /\ server_class = "ScreenServer" => w.children[get_pid(w, name)[1]] = 1

\* C33: start on an instance that is running issues no launch command,
\* leaves the PID files as they are and returns a code other than success;
\* a launch command is issued only for an instance that is not running
C33_StartOnRunningDoesNothing ==
    [][Called("start")
       => /\ Running(world, Callee)
                => /\ ~Took(steps', "run_command")
                   /\ world'.files = world.files
                   /\ ~server_ret'.raised
                   /\ server_ret'.code # <<STATUS_SUCCESS>>
          /\ Took(steps', "run_command") => ~Running(world, Callee)]_vars

\* a start of an instance whose server is running returned
\* STATUS_PARTIAL_FAIL after the liveness check alone
C33_Witness ==
    /\ server_ret.op = "start"
    /\ steps = <<"is_running">>
    /\ server_ret.code = <<STATUS_PARTIAL_FAIL>>
    /\ Running(world, server_ret.instance)

C40_ScreenRunningNeedsOneChild ==
    [][(server_class = "ScreenServer" /\ Called("is_running")
            /\ ~server_ret'.raised)
       => /\ server_ret'.flag => Running(world, Callee)
          /\ (/\ get_pid(world, Callee) # <<>>
              /\ get_pid(world, Callee)[1] \in world.alive
              /\ world.children[get_pid(world, Callee)[1]] = 0)
                => ~server_ret'.flag]_vars


---------------------------------------------------------------------------
(* Claims about a parallel run of start, under SpecStart *)

\* C32: during start no PID file exists for the instance from the moment
\* the previous PID file was removed until the launch command has been
\* issued; the pid is written only after the launch command ran
C32_NoPidFileWhileLaunching ==
    \A i \in 1..Len(processes) :
        processes[i].at = "_delete_pid_file"
            => get_pid(world, processes[i].current) = <<>>

---------------------------------------------------------------------------
(* Claims about single calls *)

\* the call `fn` was made and has ended
Ended(fn) == call.fn = fn /\ result.fn = fn

\* the value the resolved configuration of the targeted instance holds for
\* the required field (the base value when no instance is targeted)
TargetValue ==
    IF call.target = PyNone THEN call.config_value ELSE call.instance_value

\* C23: a command guarded by require(field) raises before its body runs
\* when neither the command-line arguments nor the resolved configuration
\* of the targeted instance gives the field a non-null value, and the guard
\* does not raise when either gives one
C23_RequireGuard ==
    Ended("require")
        => IF call.kwarg # PyNone \/ TargetValue \notin {"absent", PyNone}
           THEN result.raised = "none"
           ELSE result.raised # "none" /\ ~result.body_ran

\* C24: a merge of a mapping with a key that is not a declared option
\* raises when ignore_unknown is false; when it is true the key is skipped
\* and every declared key of the mapping that has a value is applied
C24_UnknownKeyRaisesUnlessIgnored ==
    Ended("merge")
        => LET d == call.config_dict
               attrs == result.obj.attrs
           IN  /\ (DOMAIN d \ ConfigOptions # {} /\ ~call.ignore_unknown)
                    => result.obj.raised
               /\ call.ignore_unknown
                    => /\ ~result.obj.raised
                       /\ DOMAIN attrs = DOMAIN class_defaults
                       /\ \A k \in ConfigOptions :
                            attrs[k] = IF k \in DOMAIN d /\ d[k] # PyNone
                                       THEN d[k]
                                       ELSE class_defaults[k]

\* a strict merge of a mapping with declared keys and an undeclared one
\* raised
C24_Witness ==
    /\ Ended("merge")
    /\ ~call.ignore_unknown
    /\ DOMAIN call.config_dict = {"max_start", "foreground"}
    /\ result.obj.raised

\* no health probe is configured for the server of the call
NoProbe ==
    CASE call.adapter = "BaseServer" -> TRUE
      [] call.adapter = "SteamServer" -> ~call.query_enabled
      [] OTHER -> ~call.query_enabled /\ ~call.rcon_enabled

\* C25: is_accessible is true only for a running instance, and with no
\* health probe configured it returns exactly what is_running returns
C25_AccessibleOnlyIfRunning ==
    Ended("is_accessible")
        => /\ result.ret => call.running
           /\ NoProbe => (result.ret = call.running)

\* the instances that run when install is called ("default" stands for the
\* server of a configuration without instances)
RunningBefore ==
    IF call.all_instance_names = <<>> THEN call.running \cap {"default"}
    ELSE call.running \cap {"alpha", "beta"}

\* the names a marker file lists
MarkerNames(marker) ==
    IF marker = <<>> THEN {} ELSE list_values(split(marker[1]))

\* the start commands that start exactly the instances of S
StartOf(S) ==
    CASE S = {} -> <<>>
      [] S = {"default"} -> <<[cmd |-> "start", current_instances |-> PyNone]>>
      [] S = {"alpha"} ->
            <<[cmd |-> "start", current_instances |-> "@each:alpha"]>>
      [] S = {"beta"} ->
            <<[cmd |-> "start", current_instances |-> "@each:beta"]>>
      [] OTHER ->
            <<[cmd |-> "start", current_instances |-> "@each:alpha,beta"]>>

\* C26: a maintenance operation that stops the servers records in the
\* marker file exactly the instances that ran before the stop (the base
\* server as "default"), and its restart step starts exactly the recorded
\* instances: those it stopped, else those a marker on disk lists
C26_RestartsWhatWasRunning ==
    Ended("install")
        => /\ result.raised = "none"
           /\ (RunningBefore # {} /\ call.stop /\ ~call.restart)
                => MarkerNames(result.marker) = RunningBefore
           /\ (call.restart /\ call.returncode = 0)
                => SelectSeq(result.invoked, LAMBDA r : r.cmd = "start")
                     = StartOf(IF RunningBefore # {} THEN RunningBefore
                               ELSE MarkerNames(call.marker))

\* C27: the search for the configuration file checks the working directory
\* and then its parents, the nearest first, makes at most five file checks,
\* never checks the root, and returns the first directory found to hold the
\* file, else the working directory
C27_SearchChecksFiveDirectories ==
    Ended("find")
        => LET cwd == call.cwd
               n == IF Len(cwd) < 5 THEN Len(cwd) ELSE 5
               candidate(i) == SubSeq(cwd, 1, Len(cwd) - i + 1)
               hits == {i \in 1..n : candidate(i) \in call.config_files}
               first == CHOOSE i \in hits : \A j \in hits : i <= j
           IN  /\ result.found.checks <= n
               /\ result.found.path =
                     IF hits = {} THEN cwd ELSE candidate(first)
               /\ hits # {} => result.found.checks = first

\* six levels down, the file lies only in the sixth directory of the walk
\* and in the root: five checks are made and the working directory returned
C27_Witness ==
    /\ Ended("find")
    /\ Len(call.cwd) = 6
    /\ call.config_files = {<<>>, <<1>>}
    /\ result.found = [path |-> call.cwd, checks |-> 5]

C37_SuccessOnlyIfAllSucceeded ==
    (Ended("collect") /\ result.return_code = STATUS_SUCCESS)
        => \A i \in 1..Len(result.results) : result.results[i] = STATUS_SUCCESS

\* C39 (as claimed): a strict merge that raises leaves the configuration
\* as it was before the merge: no key of the mapping has been applied.
C39_FailedMergeChangesNothing ==
    (Ended("merge") /\ ~call.ignore_unknown /\ result.obj.raised)
        => result.obj.attrs = class_defaults

====
